---- MODULE Spec2Model ----
(***************************************************************************)
(* Ingestion pipeline of preu-app: the scan queue (QueueRepository /       *)
(* QueueService), the SCD2 price ledger (PriceHistoryRepository /          *)
(* PriceHistoryService) and the orchestrator (ScrapingService).            *)
(*                                                                         *)
(* Amounts are integers in thousandths of a euro; timestamps are integer   *)
(* clock readings.  A handler that commits is one atomic action; the state *)
(* variables hold the committed database state.                            *)
(***************************************************************************)
EXTENDS Integers, Sequences, FiniteSets, TLC

VARIABLES queue, products, history, now, op

vars == <<queue, products, history, now, op>>

(* ------------------------------ bounds --------------------------------- *)
\* product ids are 1..MaxItems
MaxItems == 2
\* the clock stops the exploration at MaxTime
MaxTime == 3
\* batch size asked by process_batch (1000 in the code, scaled down so that
\* a queue of a few entries is larger than the candidate window)
BatchSize == 1
\* get_next_batch on its own: bonpreu ids are 1..MaxEntries, batch_size is
\* 0..MaxBatch
MaxEntries == 3
MaxBatch == 2
\* the queue operations on their own: number of calls, one clock tick each
MaxCalls == 4
\* batches repeated for ever: a fetch fails only while the entry's
\* scan_priority is below MaxPriority, and scan_count is stored up to
\* MaxScanCount
MaxPriority == 1
MaxScanCount == 2
\* the queue of one supermarket under every queue call: number of calls
MaxQueueCalls == 3

(* ------------------------------ values --------------------------------- *)
\* SQL NULL / Python None in a nullable numeric or timestamp column
NULL == -1
\* SQL NULL in the nullable text column last_error
NullText == "NULL"
\* Optional[...] holding no object (query(...).first() found no row)
None == [none |-> TRUE]

Sources == {"bonpreu", "mercadona"}
\* the supermarket the orchestrator is run for in the exploration
ScrapedSources == {"bonpreu"}
Items == 1..MaxItems
Keys == Items \X Sources

Min(a, b) == IF a < b THEN a ELSE b

\* (price, unit price) pairs a scraper can deliver; _parse_price keeps every
\* decimal it is given and gives None for a missing amount
Snapshots == {<<1990, 1990>>, <<1994, 1990>>, <<1990, NULL>>, <<NULL, NULL>>}

\* a Numeric(10, 2) column keeps two decimals: the value is rounded on storage
Round2(a) == IF a = NULL THEN NULL ELSE ((a + 5) \div 10) * 10

(* --------------------------- price ledger ------------------------------ *)

\* ProductRepository.get_by_id
get_by_id(prods, product_id, supermarket_name) ==
    prods[<<product_id, supermarket_name>>]

\* has_price_changed with the second comparison reading the wrong field of
\* new_data
has_price_changed_wrong_field(old_product, new_data) ==
    IF old_product = None
    THEN TRUE
    ELSE IF old_product.product_price_amount # new_data.product_unit_price_amount
         THEN TRUE
         ELSE old_product.product_unit_price_amount
                  # new_data.product_unit_price_amount

\* has_price_changed without its elif branch: the unit price is never compared
has_price_changed_price_only(old_product, new_data) ==
    IF old_product = None
    THEN TRUE
    ELSE old_product.product_price_amount # new_data.product_price_amount

\* PriceHistoryService.has_price_changed
has_price_changed(old_product, new_data) ==
    IF old_product = None
    THEN TRUE
    ELSE LET old_price == old_product.product_price_amount
             old_unit_price == old_product.product_unit_price_amount
             new_price == new_data.product_price_amount
             new_unit_price == new_data.product_unit_price_amount
         IN  IF old_price # new_price THEN TRUE
             ELSE IF old_unit_price # new_unit_price THEN TRUE
             ELSE FALSE

\* PriceHistoryRepository.get_current_price: the open rows of a key
\* (.first() returns one of them)
CurrentRows(hist, product_id, supermarket_name) ==
    {i \in DOMAIN hist :
        /\ hist[i].product_id = product_id
        /\ hist[i].supermarket_name = supermarket_name
        /\ hist[i].is_current}

\* close_previous_entry with an update that sets valid_to but leaves
\* is_current as it is
close_previous_entry_keeps_current(hist, product_id, supermarket_name, t) ==
    [i \in DOMAIN hist |->
        IF i \in CurrentRows(hist, product_id, supermarket_name)
        THEN [hist[i] EXCEPT !.valid_to = t]
        ELSE hist[i]]

\* PriceHistoryRepository.close_previous_entry; t is its clock reading
close_previous_entry(hist, product_id, supermarket_name, t) ==
    [i \in DOMAIN hist |->
        IF i \in CurrentRows(hist, product_id, supermarket_name)
        THEN [hist[i] EXCEPT !.is_current = FALSE, !.valid_to = t]
        ELSE hist[i]]

\* PriceHistoryRepository.create_entry: the row as the table stores it
create_entry(hist, price_data) ==
    Append(hist,
           [product_id |-> price_data.product_id,
            supermarket_name |-> price_data.supermarket_name,
            product_price_amount |-> Round2(price_data.product_price_amount),
            product_unit_price_amount |-> Round2(price_data.product_unit_price_amount),
            valid_from |-> price_data.valid_from,
            valid_to |-> NULL,
            is_current |-> price_data.is_current])

\* PriceHistoryService.create_price_history_entry; t_close and t_from are the
\* two clock readings it makes (close_previous_entry, then valid_from)
create_price_history_entry(hist, product_data, old_product, t_close, t_from) ==
    LET closed == IF old_product # None
                  THEN close_previous_entry(hist, product_data.product_id,
                                            product_data.supermarket_name, t_close)
                  ELSE hist
    IN  create_entry(closed,
                     [product_id |-> product_data.product_id,
                      supermarket_name |-> product_data.supermarket_name,
                      product_price_amount |-> product_data.product_price_amount,
                      product_unit_price_amount |-> product_data.product_unit_price_amount,
                      valid_from |-> t_from,
                      is_current |-> TRUE])

\* an upsert that inserts a missing product and leaves an existing one alone
upsert_keeps_existing(prods, product_data) ==
    LET k == <<product_data.product_id, product_data.supermarket_name>>
    IN  IF prods[k] # None
        THEN prods
        ELSE [prods EXCEPT ![k] =
                [product_price_amount |-> Round2(product_data.product_price_amount),
                 product_unit_price_amount |->
                     Round2(product_data.product_unit_price_amount)]]

\* ProductRepository.upsert: the products row as the table stores it
upsert(prods, product_data) ==
    [prods EXCEPT ![<<product_data.product_id, product_data.supermarket_name>>] =
        [product_price_amount |-> Round2(product_data.product_price_amount),
         product_unit_price_amount |-> Round2(product_data.product_unit_price_amount)]]

(* ----------------------------- scan queue ------------------------------ *)

\* ProductScanQueue row with the column defaults
NewEntry(priority) ==
    [last_scanned |-> NULL, scan_priority |-> priority, scan_count |-> 0,
     error_count |-> 0, last_error |-> NullText]

\* update_scan_status whose failure branch leaves scan_priority alone
update_scan_status_same_priority(q, product_id, supermarket_name, success, error_message, t) ==
    LET k == <<product_id, supermarket_name>>
        queue_item == q[k]
    IN  IF queue_item # None
        THEN LET scanned == [queue_item EXCEPT !.last_scanned = t,
                                               !.scan_count = @ + 1]
             IN [ret |-> TRUE,
                 queue |-> [q EXCEPT ![k] =
                    IF success
                    THEN [scanned EXCEPT !.error_count = 0,
                                         !.last_error = NullText]
                    ELSE [scanned EXCEPT !.error_count = @ + 1,
                                         !.last_error = error_message]]]
        ELSE [ret |-> FALSE, queue |-> q]

\* update_scan_status whose success branch clears last_error but leaves
\* error_count alone
update_scan_status_keeps_errors(q, product_id, supermarket_name, success, error_message, t) ==
    LET k == <<product_id, supermarket_name>>
        queue_item == q[k]
    IN  IF queue_item # None
        THEN LET scanned == [queue_item EXCEPT !.last_scanned = t,
                                               !.scan_count = @ + 1]
             IN [ret |-> TRUE,
                 queue |-> [q EXCEPT ![k] =
                    IF success
                    THEN [scanned EXCEPT !.last_error = NullText]
                    ELSE [scanned EXCEPT !.error_count = @ + 1,
                                         !.last_error = error_message,
                                         !.scan_priority = @ + 1]]]
        ELSE [ret |-> FALSE, queue |-> q]

\* QueueRepository.update_scan_status; t is the clock reading
update_scan_status(q, product_id, supermarket_name, success, error_message, t) ==
    LET k == <<product_id, supermarket_name>>
        queue_item == q[k]
    IN  IF queue_item # None
        THEN LET scanned == [queue_item EXCEPT !.last_scanned = t,
                                               !.scan_count = @ + 1]
             IN [ret |-> TRUE,
                 queue |-> [q EXCEPT ![k] =
                    IF success
                    THEN [scanned EXCEPT !.error_count = 0,
                                         !.last_error = NullText]
                    ELSE [scanned EXCEPT !.error_count = @ + 1,
                                         !.last_error = error_message,
                                         !.scan_priority = @ + 1]]]
        ELSE [ret |-> FALSE, queue |-> q]

\* ORDER BY scan_priority DESC, last_scanned ASC NULLS FIRST: entry a sorts
\* strictly before entry b
SortsBefore(a, b) ==
    \/ a.scan_priority > b.scan_priority
    \/ /\ a.scan_priority = b.scan_priority
       /\ \/ a.last_scanned = NULL /\ b.last_scanned # NULL
          \/ a.last_scanned # NULL /\ b.last_scanned # NULL
             /\ a.last_scanned < b.last_scanned

\* the rows of one supermarket
RowsOfSource(q, supermarket_name) ==
    {k \in DOMAIN q : k[2] = supermarket_name /\ q[k] # None}

\* every order the database may return the rows of a supermarket in: rows
\* that tie on both sort keys come in any order
ScanOrders(q, supermarket_name) ==
    LET rows == RowsOfSource(q, supermarket_name)
        n == Cardinality(rows)
    IN  {ord \in [1..n -> rows] :
            /\ \A i, j \in 1..n : i # j => ord[i] # ord[j]
            /\ \A i, j \in 1..n : i < j => ~SortsBefore(q[ord[j]], q[ord[i]])}

\* QueueRepository.get_products_to_scan: the results the query may give
get_products_to_scan(q, supermarket_name, limit) ==
    {SubSeq(ord, 1, Min(limit, Len(ord))) : ord \in ScanOrders(q, supermarket_name)}

\* the for loop of get_next_batch, from position i on
RECURSIVE partition_loop(_, _, _, _, _)
partition_loop(q, prods, i, high_priority, normal_priority) ==
    IF i > Len(prods)
    THEN [high_priority |-> high_priority, normal_priority |-> normal_priority]
    ELSE LET product == q[prods[i]]
         IN IF product.error_count > 0 \/ product.last_scanned = NULL
            THEN partition_loop(q, prods, i + 1,
                                Append(high_priority, prods[i]), normal_priority)
            ELSE partition_loop(q, prods, i + 1,
                                high_priority, Append(normal_priority, prods[i]))

\* get_next_batch without the split into high and normal priority: the first
\* batch_size rows in query order
get_next_batch_query_order(q, prods, batch_size) ==
    SubSeq(prods, 1, Min(batch_size, Len(prods)))

\* QueueService.get_next_batch, given the rows get_products_to_scan returned
\* for limit = batch_size * 2
get_next_batch(q, prods, batch_size) ==
    LET parts == partition_loop(q, prods, 1, <<>>, <<>>)
        high_priority == parts.high_priority
        normal_priority == parts.normal_priority
        result == SubSeq(high_priority, 1, Min(batch_size, Len(high_priority)))
    IN  IF Len(result) < batch_size
        THEN LET remaining == batch_size - Len(result)
             IN result \o SubSeq(normal_priority, 1,
                                 Min(remaining, Len(normal_priority)))
        ELSE result

\* upsert_product that overwrites the priority of an existing row
upsert_product_overwrites(q, product_id, supermarket_name, priority) ==
    LET k == <<product_id, supermarket_name>>
    IN  IF q[k] # None
        THEN [q EXCEPT ![k].scan_priority = priority]
        ELSE [q EXCEPT ![k] = NewEntry(priority)]

\* QueueRepository.upsert_product
upsert_product(q, product_id, supermarket_name, priority) ==
    LET k == <<product_id, supermarket_name>>
        existing == q[k]
    IN  IF existing # None
        THEN [q EXCEPT ![k].scan_priority =
                 IF existing.scan_priority > priority
                 THEN existing.scan_priority ELSE priority]
        ELSE [q EXCEPT ![k] = NewEntry(priority)]

\* QueueRepository.upsert_many.  raised: the bulk insert hit the unique index
\* idx_scan_queue_product (the same new id twice in product_ids)
upsert_many(q, product_ids, supermarket_name, priority) ==
    IF Len(product_ids) = 0
    THEN [raised |-> FALSE, error |-> NullText, ret |-> 0, queue |-> q]
    ELSE LET IsNew(pid) == q[<<pid, supermarket_name>>] = None
             new_product_ids == SelectSeq(product_ids, IsNew)
             ids == {product_ids[i] : i \in DOMAIN product_ids}
             new_ids == {new_product_ids[i] : i \in DOMAIN new_product_ids}
         IN [raised |-> Cardinality(new_ids) < Len(new_product_ids),
             error |-> IF Cardinality(new_ids) < Len(new_product_ids)
                       THEN "IntegrityError" ELSE NullText,
             ret |-> Len(new_product_ids),
             queue |-> [k \in DOMAIN q |->
                IF k[2] = supermarket_name /\ k[1] \in new_ids
                THEN NewEntry(priority)
                ELSE IF /\ k[2] = supermarket_name /\ k[1] \in ids
                        /\ q[k] # None /\ q[k].scan_priority < priority
                THEN [q[k] EXCEPT !.scan_priority = priority]
                ELSE q[k]]]

\* QueueService.upsert_products_to_queue
upsert_products_to_queue(q, supermarket_name, product_ids, priority) ==
    IF Len(product_ids) = 0
    THEN [raised |-> FALSE, error |-> NullText, ret |-> 0, queue |-> q]
    ELSE LET IsValid(pid) == pid > 0
             valid_product_ids == SelectSeq(product_ids, IsValid)
         IN IF Len(valid_product_ids) = 0
            THEN [raised |-> TRUE, error |-> "No valid product IDs provided",
                  ret |-> 0, queue |-> q]
            ELSE upsert_many(q, valid_product_ids, supermarket_name, priority)

\* QueueRepository.update_scan_results; t is the clock reading
update_scan_results(q, prods, t) ==
    [k \in DOMAIN q |->
        IF \E i \in DOMAIN prods : prods[i] = k
        THEN [q[k] EXCEPT !.last_scanned = t, !.scan_count = @ + 1]
        ELSE q[k]]

\* QueueRepository.reset_error_count
reset_error_count(q, product_id, supermarket_name) ==
    LET k == <<product_id, supermarket_name>>
    IN  IF q[k] # None
        THEN [ret |-> TRUE,
              queue |-> [q EXCEPT ![k].error_count = 0, ![k].last_error = NullText]]
        ELSE [ret |-> FALSE, queue |-> q]

\* QueueRepository.delete_product
delete_product(q, product_id, supermarket_name) ==
    LET k == <<product_id, supermarket_name>>
    IN  IF q[k] # None
        THEN [ret |-> TRUE, queue |-> [q EXCEPT ![k] = None]]
        ELSE [ret |-> FALSE, queue |-> q]

\* QueueService.prioritize_product, given the rows prods that
\* get_products_to_scan returned for limit PrioritizeLimit
prioritize_product(q, prods, product_id, priority_increase) ==
    IF \E i \in DOMAIN prods : prods[i][1] = product_id
    THEN LET i == CHOOSE j \in DOMAIN prods :
                     /\ prods[j][1] = product_id
                     /\ \A m \in 1..(j - 1) : prods[m][1] # product_id
         IN [ret |-> TRUE,
             queue |-> [q EXCEPT ![prods[i]].scan_priority = @ + priority_increase]]
    ELSE [ret |-> FALSE, queue |-> q]

(* ----------------------------- orchestrator ---------------------------- *)

\* what one fetch_product_details call and the processing of its result can
\* give: "not_found" (None), "data" (a product dict), "invalid" (a product
\* dict that Product.model_validate rejects in ProductService.upsert_product,
\* after ProductRepository.upsert).  gap: how far the clock advances between
\* the clock reading of close_previous_entry and the reading for valid_from
ItemInputs ==
    {[kind |-> "not_found", price |-> NULL, unit |-> NULL, gap |-> 0]} \cup
    {[kind |-> "data", price |-> sn[1], unit |-> sn[2], gap |-> g] :
        sn \in Snapshots, g \in {0, 1}} \cup
    {[kind |-> "invalid", price |-> sn[1], unit |-> sn[2], gap |-> 0] :
        sn \in {<<1990, 1990>>, <<1994, 1990>>}}

\* the product dict a scraper builds (_parse_product_data)
ProductData(product_id, supermarket_name, inp) ==
    [product_id |-> product_id, supermarket_name |-> supermarket_name,
     product_price_amount |-> inp.price, product_unit_price_amount |-> inp.unit]

\* body of the for loop of process_batch for one product id.  st holds the
\* session's view of the tables, the clock and the two counters
batch_item(st, supermarket_name, product_id, inp) ==
    LET t_fetch == st.now + 1
    IN  IF inp.kind = "not_found"
        THEN [st EXCEPT
                !.queue = update_scan_status(st.queue, product_id, supermarket_name,
                                             FALSE, "Product not found", t_fetch).queue,
                !.now = t_fetch,
                !.error_count = @ + 1]
        ELSE LET product_data == ProductData(product_id, supermarket_name, inp)
                 existing_product == get_by_id(st.products, product_id, supermarket_name)
                 price_changed == has_price_changed(existing_product, product_data)
                 t_end == IF price_changed THEN t_fetch + inp.gap ELSE t_fetch
                 hist == IF price_changed
                         THEN create_price_history_entry(st.history, product_data,
                                                         existing_product, t_fetch, t_end)
                         ELSE st.history
                 prods == upsert(st.products, product_data)
             IN IF inp.kind = "data"
                THEN [st EXCEPT
                        !.history = hist, !.products = prods,
                        !.queue = update_scan_status(st.queue, product_id,
                                      supermarket_name, TRUE, NullText, t_end).queue,
                        !.now = t_end,
                        !.updated_count = @ + 1]
                ELSE [st EXCEPT
                        !.history = hist, !.products = prods,
                        !.queue = update_scan_status(st.queue, product_id,
                                      supermarket_name, FALSE, "validation error",
                                      t_end).queue,
                        !.now = t_end,
                        !.error_count = @ + 1]

\* the for loop of process_batch over product_ids, from position i on
RECURSIVE batch_loop(_, _, _, _, _)
batch_loop(st, supermarket_name, product_ids, inps, i) ==
    IF i > Len(product_ids)
    THEN st
    ELSE batch_loop(batch_item(st, supermarket_name, product_ids[i][1], inps[i]),
                    supermarket_name, product_ids, inps, i + 1)

\* ScrapingService.process_batch after the work set products_to_scan was
\* read; the value is the committed state and the result dict
process_batch(st, supermarket_name, products_to_scan, inps) ==
    IF Len(products_to_scan) = 0
    THEN [st |-> st,
          result |-> [success |-> TRUE, products_processed |-> 0,
                      products_updated |-> 0, errors |-> 0]]
    ELSE LET done == batch_loop(st, supermarket_name, products_to_scan, inps, 1)
             final == [done EXCEPT !.queue =
                          update_scan_results(done.queue, products_to_scan, done.now)]
         IN [st |-> final,
             result |-> [success |-> TRUE,
                         products_processed |-> Len(products_to_scan),
                         products_updated |-> final.updated_count,
                         errors |-> final.error_count]]

\* ScrapingService.process_product; on an exception the session is rolled
\* back, so nothing but the passing of time remains
process_product(st, supermarket_name, product_id, inp) ==
    LET t_fetch == st.now + 1
    IN  IF inp.kind = "not_found"
        THEN [st |-> [st EXCEPT !.now = t_fetch],
              result |-> [success |-> FALSE, price_changed |-> FALSE]]
        ELSE LET product_data == ProductData(product_id, supermarket_name, inp)
                 existing_product == get_by_id(st.products, product_id, supermarket_name)
                 price_changed == has_price_changed(existing_product, product_data)
                 t_end == IF price_changed THEN t_fetch + inp.gap ELSE t_fetch
                 hist == IF price_changed
                         THEN create_price_history_entry(st.history, product_data,
                                                         existing_product, t_fetch, t_end)
                         ELSE st.history
                 prods == upsert(st.products, product_data)
             IN IF inp.kind = "data"
                THEN [st |-> [st EXCEPT
                                !.history = hist, !.products = prods,
                                !.queue = update_scan_status(st.queue, product_id,
                                              supermarket_name, TRUE, NullText,
                                              t_end).queue,
                                !.now = t_end],
                      result |-> [success |-> TRUE, price_changed |-> price_changed]]
                ELSE [st |-> [st EXCEPT !.now = t_end],
                      result |-> [success |-> FALSE, price_changed |-> FALSE]]

\* refresh_sitemap without the test for an empty id list
refresh_sitemap_no_empty_check(st, supermarket_name, product_ids, fault) ==
    LET t_fetch == st.now + 1
        r == upsert_products_to_queue(st.queue, supermarket_name, product_ids, 0)
    IN  IF r.raised \/ fault = "commit"
        THEN [st |-> [st EXCEPT !.now = t_fetch],
              result |-> [success |-> FALSE,
                          message |-> IF r.raised THEN r.error ELSE "commit failed",
                          products_processed |-> 0]]
        ELSE [st |-> [st EXCEPT !.queue = r.queue, !.now = t_fetch],
              result |-> [success |-> TRUE,
                          message |-> "Sitemap refreshed successfully",
                          products_processed |-> Len(product_ids)]]

\* refresh_sitemap whose except branch does not roll back: what the session
\* wrote before the exception stays
refresh_sitemap_no_rollback(st, supermarket_name, product_ids, fault) ==
    LET t_fetch == st.now + 1
    IN  IF Len(product_ids) = 0
        THEN [st |-> [st EXCEPT !.now = t_fetch],
              result |-> [success |-> FALSE,
                          message |-> "No products found in sitemap",
                          products_processed |-> 0]]
        ELSE LET r == upsert_products_to_queue(st.queue, supermarket_name,
                                               product_ids, 0)
             IN IF r.raised \/ fault = "commit"
                THEN [st |-> [st EXCEPT !.queue = r.queue, !.now = t_fetch],
                      result |-> [success |-> FALSE,
                                  message |-> IF r.raised THEN r.error
                                              ELSE "commit failed",
                                  products_processed |-> 0]]
                ELSE [st |-> [st EXCEPT !.queue = r.queue, !.now = t_fetch],
                      result |-> [success |-> TRUE,
                                  message |-> "Sitemap refreshed successfully",
                                  products_processed |-> Len(product_ids)]]

\* ScrapingService.refresh_sitemap, given the ids fetch_sitemap_products
\* found.  fault = "commit": self.db.commit() raises.  An exception is caught,
\* the session is rolled back and str(e) is the message
refresh_sitemap(st, supermarket_name, product_ids, fault) ==
    LET t_fetch == st.now + 1
    IN  IF Len(product_ids) = 0
        THEN [st |-> [st EXCEPT !.now = t_fetch],
              result |-> [success |-> FALSE,
                          message |-> "No products found in sitemap",
                          products_processed |-> 0]]
        ELSE LET r == upsert_products_to_queue(st.queue, supermarket_name,
                                               product_ids, 0)
             IN IF r.raised \/ fault = "commit"
                THEN [st |-> [st EXCEPT !.now = t_fetch],
                      result |-> [success |-> FALSE,
                                  message |-> IF r.raised THEN r.error
                                              ELSE "commit failed",
                                  products_processed |-> 0]]
                ELSE [st |-> [st EXCEPT !.queue = r.queue, !.now = t_fetch],
                      result |-> [success |-> TRUE,
                                  message |-> "Sitemap refreshed successfully",
                                  products_processed |-> Len(product_ids)]]

\* whether self.db.commit() succeeds or raises
CommitFaults == {"none", "commit"}

\* id lists a sitemap can give (ids are parsed from \d+, so 0 can occur)
SitemapLists ==
    {<<>>} \cup {<<a>> : a \in 0..MaxItems} \cup {<<a, b>> : a, b \in Items}

(* ------------------------------- actions -------------------------------- *)

Session ==
    [queue |-> queue, products |-> products, history |-> history, now |-> now,
     updated_count |-> 0, error_count |-> 0]

\* what op records of an input: the fetch outcome, not the clock's gap
Fetched(inp) == [kind |-> inp.kind, price |-> inp.price, unit |-> inp.unit]

Commit(st) ==
    /\ st.now <= MaxTime
    /\ queue' = st.queue
    /\ products' = st.products
    /\ history' = st.history
    /\ now' = st.now

Init ==
    /\ queue = [k \in Keys |-> None]
    /\ products = [k \in Keys |-> None]
    /\ history = <<>>
    /\ now = 0
    /\ op = [name |-> "init"]

RefreshSitemap ==
    /\ now < MaxTime
    /\ \E s \in ScrapedSources, ids \in SitemapLists, fault \in CommitFaults :
        LET r == refresh_sitemap(Session, s, ids, fault)
        IN  /\ Commit(r.st)
            /\ op' = [name |-> "refresh_sitemap", source |-> s,
                      product_ids |-> ids, fault |-> fault, result |-> r.result]

ProcessBatch ==
    /\ now < MaxTime
    /\ \E s \in ScrapedSources :
        \E cands \in get_products_to_scan(queue, s, BatchSize * 2) :
            LET products_to_scan == get_next_batch(queue, cands, BatchSize)
            IN  \E inps \in [1..Len(products_to_scan) -> ItemInputs] :
                    LET r == process_batch(Session, s, products_to_scan, inps)
                    IN  /\ Commit(r.st)
                        /\ op' = [name |-> "process_batch", source |-> s,
                                  batch |-> products_to_scan,
                                  inps |-> [i \in DOMAIN inps |-> Fetched(inps[i])],
                                  result |-> r.result]

ProcessProduct ==
    /\ now < MaxTime
    /\ \E s \in ScrapedSources, pid \in Items, inp \in ItemInputs :
        LET r == process_product(Session, s, pid, inp)
        IN  /\ Commit(r.st)
            /\ op' = [name |-> "process_product", source |-> s,
                      product_id |-> pid, inp |-> Fetched(inp),
                      result |-> r.result]

Next == RefreshSitemap \/ ProcessBatch \/ ProcessProduct

Spec == Init /\ [][Next]_vars

(* -------------------- has_price_changed on its own ---------------------- *)

\* amounts the comparison is tried on: None, zero and two positive amounts
ChangeAmounts == {NULL, 0, 1990, 1994}

OldProducts ==
    {None} \cup [product_price_amount : ChangeAmounts,
                 product_unit_price_amount : ChangeAmounts]

NewDatas ==
    [product_price_amount : ChangeAmounts, product_unit_price_amount : ChangeAmounts]

\* one call of PriceHistoryService.has_price_changed
HasPriceChanged ==
    /\ \E old_product \in OldProducts, new_data \in NewDatas :
          op' = [name |-> "has_price_changed", old_product |-> old_product,
                 new_data |-> new_data,
                 ret |-> has_price_changed(old_product, new_data)]
    /\ UNCHANGED <<queue, products, history, now>>

SpecChange == Init /\ [][HasPriceChanged]_vars

\* null equals only null and differs from every number
AmountEq(a, b) == (a = NULL /\ b = NULL) \/ (a # NULL /\ b # NULL /\ a = b)

\* C3: has_price_changed is true whenever the previous product is absent;
\* when it exists the result is false if and only if price_amount and
\* unit_price_amount are pairwise equal, null being equal only to null.
C3_ChangeDetection ==
    op.name = "has_price_changed" =>
        IF op.old_product = None
        THEN op.ret = TRUE
        ELSE (op.ret = FALSE) <=>
                /\ AmountEq(op.old_product.product_price_amount,
                            op.new_data.product_price_amount)
                /\ AmountEq(op.old_product.product_unit_price_amount,
                            op.new_data.product_unit_price_amount)

\* a comparison found equal with the unit price null on both sides
C3_Witness ==
    /\ op.name = "has_price_changed"
    /\ op.old_product # None
    /\ op.ret = FALSE
    /\ op.old_product.product_unit_price_amount = NULL
    /\ op.new_data.product_unit_price_amount = NULL

(* ---------------------- get_next_batch on its own ----------------------- *)

QueueKeys == ((1..MaxEntries) \X {"bonpreu"}) \cup {<<1, "mercadona">>}

\* the row update_scan_status makes of row e at time t
Scanned(e, success, t) ==
    update_scan_status([k \in {<<1, "bonpreu">>} |-> e], 1, "bonpreu", success,
                       "Product not found", t).queue[<<1, "bonpreu">>]

\* rows a bonpreu entry can be: enqueued with priority 0 or 5 and never
\* scanned, scanned once with success at time 1, enqueued with priority 0 and
\* failed at time 1, or enqueued with priority 5 and scanned once with success
\* at time 2
EntryShapes ==
    LET fresh == {NewEntry(0), NewEntry(5)}
    IN  fresh \cup {Scanned(e, TRUE, 1) : e \in fresh}
              \cup {Scanned(NewEntry(0), FALSE, 1), Scanned(NewEntry(5), TRUE, 2)}

InitNextBatch ==
    /\ queue \in {q \in [QueueKeys -> EntryShapes \cup {None}] :
                    q[<<1, "mercadona">>] \in {None, NewEntry(5)}}
    /\ products = [k \in Keys |-> None]
    /\ history = <<>>
    /\ now = 2
    /\ op = [name |-> "init"]

\* one call of QueueService.get_next_batch
GetNextBatch ==
    /\ \E s \in Sources, n \in 0..MaxBatch :
          IF n <= 0
          THEN op' = [name |-> "get_next_batch", source |-> s, batch_size |-> n,
                      raised |-> TRUE, candidates |-> <<>>, ret |-> <<>>]
          ELSE \E cands \in get_products_to_scan(queue, s, n * 2) :
                  op' = [name |-> "get_next_batch", source |-> s, batch_size |-> n,
                         raised |-> FALSE, candidates |-> cands,
                         ret |-> get_next_batch(queue, cands, n)]
    /\ UNCHANGED <<queue, products, history, now>>

SpecNextBatch == InitNextBatch /\ [][GetNextBatch]_vars

\* an urgent entry: it has errors or was never scanned
Urgent(e) == e.error_count > 0 \/ e.last_scanned = NULL

UrgentRows(q, s) == {k \in RowsOfSource(q, s) : Urgent(q[k])}

Elems(seq) == {seq[i] : i \in DOMAIN seq}

\* C6: for a batch size not larger than the number of urgent entries of the
\* source, get_next_batch returns only urgent entries.
C6_OnlyUrgentUpToUrgentCount ==
    (op.name = "get_next_batch" /\ ~op.raised
        /\ op.batch_size <= Cardinality(UrgentRows(queue, op.source)))
    => \A i \in DOMAIN op.ret : Urgent(queue[op.ret[i]])

\* cands is what "the first m entries of source s ordered by scan_priority
\* descending, then last_scanned ascending with never-scanned first" can be
IsFirstOrdered(cands, q, s, m) ==
    /\ Len(cands) = Min(m, Cardinality(RowsOfSource(q, s)))
    /\ Elems(cands) \subseteq RowsOfSource(q, s)
    /\ \A i, j \in DOMAIN cands :
          i < j => /\ cands[i] # cands[j]
                   /\ ~SortsBefore(q[cands[j]], q[cands[i]])
    /\ \A k \in RowsOfSource(q, s) \ Elems(cands) :
          \A i \in DOMAIN cands : ~SortsBefore(q[k], q[cands[i]])

\* the urgent entries of cands in order, then the routine ones, cut to n
ReferenceBatch(q, cands, n) ==
    LET IsUrgent(k) == Urgent(q[k])
        IsRoutine(k) == ~Urgent(q[k])
        all == SelectSeq(cands, IsUrgent) \o SelectSeq(cands, IsRoutine)
    IN  SubSeq(all, 1, Min(n, Len(all)))

\* the queue of the scenario: A = 1 (priority 0, scanned yesterday), B = 2
\* (priority 0, never scanned), C = 3 (priority 5, scanned today)
ScenarioABC ==
    /\ RowsOfSource(queue, "bonpreu") =
          {<<1, "bonpreu">>, <<2, "bonpreu">>, <<3, "bonpreu">>}
    /\ queue[<<1, "bonpreu">>] = Scanned(NewEntry(0), TRUE, 1)
    /\ queue[<<2, "bonpreu">>] = NewEntry(0)
    /\ queue[<<3, "bonpreu">>] = Scanned(NewEntry(5), TRUE, 2)

\* C7: get_next_batch(source, n) is the reference result over the first 2n
\* entries of the source in query order; it has at most n entries, no entry
\* twice, only entries of the source, and gives [B, C] in the scenario.
C7_NextBatchIsReference ==
    (op.name = "get_next_batch" /\ ~op.raised) =>
        /\ IsFirstOrdered(op.candidates, queue, op.source, 2 * op.batch_size)
        /\ op.ret = ReferenceBatch(queue, op.candidates, op.batch_size)
        /\ Len(op.ret) <= op.batch_size
        /\ \A i, j \in DOMAIN op.ret : i # j => op.ret[i] # op.ret[j]
        /\ \A i \in DOMAIN op.ret : op.ret[i][2] = op.source
        /\ (ScenarioABC /\ op.source = "bonpreu" /\ op.batch_size = 2)
              => op.ret = <<(<<2, "bonpreu">>), (<<3, "bonpreu">>)>>

\* the scenario asked for a batch of 2, with a mercadona entry in the queue
C7_Witness ==
    /\ op.name = "get_next_batch"
    /\ ScenarioABC
    /\ queue[<<1, "mercadona">>] # None
    /\ op.source = "bonpreu"
    /\ op.batch_size = 2
    /\ Len(op.ret) = 2

(* ------------------- the queue operations on their own ------------------ *)

\* error messages a caller passes to update_scan_status
ErrorMessages == {"Product not found", "timeout"}

\* priorities a caller passes to add_product_to_queue
AddPriorities == {0, 5}

\* QueueService.add_product_to_queue; product id 0 is refused
AddProductToQueue ==
    /\ now < MaxCalls
    /\ \E product_id \in 0..MaxItems, s \in Sources, priority \in AddPriorities :
          IF product_id <= 0
          THEN /\ queue' = queue
               /\ op' = [name |-> "add_product_to_queue", product_id |-> product_id,
                         source |-> s, priority |-> priority, raised |-> TRUE]
          ELSE /\ queue' = upsert_product(queue, product_id, s, priority)
               /\ op' = [name |-> "add_product_to_queue", product_id |-> product_id,
                         source |-> s, priority |-> priority, raised |-> FALSE]
    /\ now' = now + 1
    /\ UNCHANGED <<products, history>>

\* QueueService.update_scan_status called on its own
UpdateScanStatus ==
    /\ now < MaxCalls
    /\ \E product_id \in Items, s \in Sources, success \in BOOLEAN,
          error_message \in ErrorMessages :
          LET r == update_scan_status(queue, product_id, s, success,
                                      IF success THEN NullText ELSE error_message,
                                      now + 1)
          IN  /\ queue' = r.queue
              /\ op' = [name |-> "update_scan_status", product_id |-> product_id,
                        source |-> s, success |-> success,
                        error_message |-> IF success THEN NullText ELSE error_message,
                        before |-> queue[<<product_id, s>>], ret |-> r.ret]
    /\ now' = now + 1
    /\ UNCHANGED <<products, history>>

\* QueueService.reset_error_count
ResetErrorCount ==
    /\ now < MaxCalls
    /\ \E product_id \in Items, s \in Sources :
          LET r == reset_error_count(queue, product_id, s)
          IN  /\ queue' = r.queue
              /\ op' = [name |-> "reset_error_count", product_id |-> product_id,
                        source |-> s, ret |-> r.ret]
    /\ now' = now + 1
    /\ UNCHANGED <<products, history>>

\* QueueService.remove_product_from_queue
RemoveProductFromQueue ==
    /\ now < MaxCalls
    /\ \E product_id \in Items, s \in Sources :
          LET r == delete_product(queue, product_id, s)
          IN  /\ queue' = r.queue
              /\ op' = [name |-> "remove_product_from_queue",
                        product_id |-> product_id, source |-> s, ret |-> r.ret]
    /\ now' = now + 1
    /\ UNCHANGED <<products, history>>

NextQueue ==
    \/ AddProductToQueue
    \/ UpdateScanStatus
    \/ ResetErrorCount
    \/ RemoveProductFromQueue

SpecQueue == Init /\ [][NextQueue]_vars

\* the step is the call named nm on entry k
IsCallOn(o, nm, k) ==
    o.name = nm /\ o.product_id = k[1] /\ o.source = k[2]

\* C9: update_scan_status(success = false, msg) on an existing entry adds
\* exactly 1 to scan_priority, to error_count and to scan_count, sets
\* last_scanned to the time of the call and last_error to msg, and returns
\* true.
C9_FailureOutcome ==
    [][\A k \in Keys :
          (IsCallOn(op', "update_scan_status", k) /\ ~op'.success /\ queue[k] # None)
          => /\ queue'[k] # None
             /\ queue'[k].scan_priority = queue[k].scan_priority + 1
             /\ queue'[k].error_count = queue[k].error_count + 1
             /\ queue'[k].scan_count = queue[k].scan_count + 1
             /\ queue'[k].last_scanned = now'
             /\ queue'[k].last_error = op'.error_message
             /\ op'.ret = TRUE]_vars

\* a second failure in a row recorded on an entry, with another message
C9_Witness ==
    /\ op.name = "update_scan_status"
    /\ ~op.success
    /\ op.ret = TRUE
    /\ op.before.error_count = 1
    /\ op.before.last_error # op.error_message
    /\ queue[<<op.product_id, op.source>>].error_count = 2

\* C10: update_scan_status(success = true) on an existing entry sets
\* error_count to 0 and last_error to null whatever they were, adds 1 to
\* scan_count, sets last_scanned and leaves scan_priority unchanged; and at
\* every step error_count moves as the count of consecutive failed outcomes
\* since the last success or manual reset does: 0 on a new entry, plus 1 on
\* a failed outcome, 0 on a success or a reset, unchanged otherwise.
C10_SuccessOutcome ==
    [][\A k \in Keys :
          /\ (IsCallOn(op', "update_scan_status", k) /\ op'.success
                 /\ queue[k] # None)
             => /\ queue'[k] # None
                /\ queue'[k].error_count = 0
                /\ queue'[k].last_error = NullText
                /\ queue'[k].scan_count = queue[k].scan_count + 1
                /\ queue'[k].last_scanned = now'
                /\ queue'[k].scan_priority = queue[k].scan_priority
          /\ queue'[k] # None
             => queue'[k].error_count =
                   IF queue[k] = None THEN 0
                   ELSE IF IsCallOn(op', "update_scan_status", k)
                        THEN IF op'.success THEN 0 ELSE queue[k].error_count + 1
                   ELSE IF IsCallOn(op', "reset_error_count", k) THEN 0
                   ELSE queue[k].error_count]_vars

\* a success recorded on an entry that had two failures in a row
C10_Witness ==
    /\ op.name = "update_scan_status"
    /\ op.success
    /\ op.ret = TRUE
    /\ op.before.error_count = 2
    /\ op.before.last_error # NullText
    /\ queue[<<op.product_id, op.source>>].error_count = 0
    /\ queue[<<op.product_id, op.source>>].scan_priority = op.before.scan_priority

(* ------------- the queue of one supermarket under every call ------------ *)

\* the limit prioritize_product passes to get_products_to_scan
PrioritizeLimit == 10000

\* id lists a caller passes to upsert_products_to_queue
IdLists ==
    {<<>>} \cup {<<a>> : a \in 0..MaxItems} \cup {<<a, b>> : a, b \in Items}

\* priority increases a caller passes to prioritize_product
PriorityIncreases == {0, 10}

\* QueueService.upsert_products_to_queue; an exception leaves the session's
\* transaction to be rolled back by the caller, as refresh_sitemap does
UpsertProductsToQueue ==
    /\ now < MaxQueueCalls
    /\ \E s \in ScrapedSources, ids \in IdLists, priority \in AddPriorities :
          LET r == upsert_products_to_queue(queue, s, ids, priority)
          IN  /\ queue' = IF r.raised THEN queue ELSE r.queue
              /\ op' = [name |-> "upsert_products_to_queue", source |-> s,
                        product_ids |-> ids, priority |-> priority,
                        raised |-> r.raised,
                        ret |-> IF r.raised THEN NULL ELSE r.ret]
    /\ now' = now + 1
    /\ UNCHANGED <<products, history>>

\* QueueService.add_product_to_queue for a valid product id
AddProduct ==
    /\ now < MaxQueueCalls
    /\ \E product_id \in Items, s \in ScrapedSources, priority \in AddPriorities :
          /\ queue' = upsert_product(queue, product_id, s, priority)
          /\ op' = [name |-> "add_product_to_queue", product_id |-> product_id,
                    source |-> s, priority |-> priority]
    /\ now' = now + 1
    /\ UNCHANGED <<products, history>>

\* QueueService.update_scan_status
ScanStatus ==
    /\ now < MaxQueueCalls
    /\ \E product_id \in Items, s \in ScrapedSources, success \in BOOLEAN :
          LET r == update_scan_status(queue, product_id, s, success,
                                      IF success THEN NullText ELSE "timeout",
                                      now + 1)
          IN  /\ queue' = r.queue
              /\ op' = [name |-> "update_scan_status", product_id |-> product_id,
                        source |-> s, success |-> success, ret |-> r.ret]
    /\ now' = now + 1
    /\ UNCHANGED <<products, history>>

\* QueueService.reset_error_count
ResetErrors ==
    /\ now < MaxQueueCalls
    /\ \E product_id \in Items, s \in ScrapedSources :
          LET r == reset_error_count(queue, product_id, s)
          IN  /\ queue' = r.queue
              /\ op' = [name |-> "reset_error_count", product_id |-> product_id,
                        source |-> s, ret |-> r.ret]
    /\ now' = now + 1
    /\ UNCHANGED <<products, history>>

\* QueueService.prioritize_product
PrioritizeProduct ==
    /\ now < MaxQueueCalls
    /\ \E product_id \in Items, s \in ScrapedSources,
          priority_increase \in PriorityIncreases :
          \E prods \in get_products_to_scan(queue, s, PrioritizeLimit) :
              LET r == prioritize_product(queue, prods, product_id, priority_increase)
              IN  /\ queue' = r.queue
                  /\ op' = [name |-> "prioritize_product", product_id |-> product_id,
                            source |-> s, priority_increase |-> priority_increase,
                            ret |-> r.ret]
    /\ now' = now + 1
    /\ UNCHANGED <<products, history>>

NextEnqueue ==
    \/ UpsertProductsToQueue
    \/ AddProduct
    \/ ScanStatus
    \/ ResetErrors
    \/ PrioritizeProduct

SpecEnqueue == Init /\ [][NextEnqueue]_vars

\* the two calls are upsert_products_to_queue with the same arguments
SameUpsert(o1, o2) ==
    /\ o1.name = "upsert_products_to_queue"
    /\ o2.name = "upsert_products_to_queue"
    /\ o1.source = o2.source
    /\ o1.product_ids = o2.product_ids
    /\ o1.priority = o2.priority

AllValid(ids) == \A i \in DOMAIN ids : ids[i] > 0

\* C11: upsert_products_to_queue called a second time in a row with the same
\* source, list of valid ids and priority returns 0 and leaves the entries
\* (their number and their priorities) as the first call left them.
C11_UpsertManyIdempotent ==
    [][(SameUpsert(op, op') /\ AllValid(op.product_ids))
          => (~op'.raised /\ op'.ret = 0 /\ queue' = queue)]_vars

\* C12: under upsert_products_to_queue, add_product_to_queue,
\* update_scan_status, reset_error_count and prioritize_product with an
\* increase >= 0 the scan_priority of an entry never decreases, and the two
\* enqueue calls leave an existing entry with max(existing, given priority).
C12_PriorityNeverDecreases ==
    [][\A k \in Keys :
          queue[k] # None =>
            /\ queue'[k] # None
            /\ queue'[k].scan_priority >= queue[k].scan_priority
            /\ (/\ op'.name \in {"upsert_products_to_queue", "add_product_to_queue"}
                /\ op'.source = k[2]
                /\ IF op'.name = "add_product_to_queue"
                   THEN op'.product_id = k[1]
                   ELSE ~op'.raised /\ k[1] \in Elems(op'.product_ids))
               => queue'[k].scan_priority =
                     IF queue[k].scan_priority > op'.priority
                     THEN queue[k].scan_priority ELSE op'.priority]_vars

\* an entry raised by a failure or a boost is enqueued again with priority 0
C12_Witness ==
    /\ op.name \in {"upsert_products_to_queue", "add_product_to_queue"}
    /\ op.priority = 0
    /\ \E k \in Keys :
          /\ queue[k] # None
          /\ queue[k].scan_priority > 0
          /\ op.source = k[2]
          /\ IF op.name = "add_product_to_queue"
             THEN op.product_id = k[1]
             ELSE ~op.raised /\ k[1] \in Elems(op.product_ids)

\* C13: upsert_products_to_queue given a list of valid ids, the same id
\* possibly more than once, completes without error (and the store holds at
\* most one entry per product id and supermarket).
C13_DuplicateIdsAccepted ==
    (op.name = "upsert_products_to_queue" /\ Len(op.product_ids) > 0
        /\ AllValid(op.product_ids))
    => ~op.raised

(* ----------------------- batches repeated for ever ---------------------- *)

\* The clock and scan_count grow without bound as batches repeat.  The code
\* a batch runs never reads scan_count, and it reads timestamps only for
\* null-ness and order (the ORDER BY of get_products_to_scan, the test in
\* get_next_batch).  To keep the state finite each step of this specification
\* stores every timestamp as its rank among the timestamps held in the
\* tables, the clock as the highest rank, and scan_count up to MaxScanCount.

FairKeys == (1..MaxEntries) \X ScrapedSources

Timestamps(q, hist) ==
    ({q[k].last_scanned : k \in {x \in DOMAIN q : q[x] # None}}
        \cup {hist[i].valid_from : i \in DOMAIN hist}
        \cup {hist[i].valid_to : i \in DOMAIN hist}) \ {NULL}

Rank(t, T) == IF t = NULL THEN NULL ELSE Cardinality({u \in T : u <= t})

CommitRanked(st) ==
    \E T \in {Timestamps(st.queue, st.history)} :
        /\ queue' = [k \in DOMAIN st.queue |->
                        IF st.queue[k] = None THEN None
                        ELSE [st.queue[k] EXCEPT
                                !.last_scanned = Rank(@, T),
                                !.scan_count = Min(@, MaxScanCount)]]
        /\ products' = st.products
        /\ history' = [i \in DOMAIN st.history |->
                          [st.history[i] EXCEPT !.valid_from = Rank(@, T),
                                                !.valid_to = Rank(@, T)]]
        /\ now' = Cardinality(T)

\* fetch outcomes: the product is not found, or it is found at one price
FairInputs ==
    {[kind |-> "not_found", price |-> NULL, unit |-> NULL, gap |-> 0],
     [kind |-> "data", price |-> 1990, unit |-> 1990, gap |-> 0]}

\* id lists the sitemap gives: the first two products, or a later one
FairSitemapLists == {<<1, 2>>} \cup {<<a>> : a \in 3..MaxEntries}

InitFair ==
    /\ queue = [k \in FairKeys |-> None]
    /\ products = [k \in FairKeys |-> None]
    /\ history = <<>>
    /\ now = 0
    /\ op = [name |-> "init"]

FairRefreshSitemap ==
    \E s \in ScrapedSources, ids \in FairSitemapLists :
        \E r \in {refresh_sitemap(Session, s, ids, "none")} :
            /\ CommitRanked(r.st)
            /\ op' = [name |-> "refresh_sitemap", source |-> s,
                      product_ids |-> ids, result |-> r.result]

FairProcessBatch ==
    \E s \in ScrapedSources :
        \E cands \in get_products_to_scan(queue, s, BatchSize * 2) :
            \E products_to_scan \in {get_next_batch(queue, cands, BatchSize)} :
                \E inps \in [1..Len(products_to_scan) -> FairInputs] :
                    /\ \A i \in DOMAIN inps :
                          inps[i].kind = "not_found"
                            => queue[products_to_scan[i]].scan_priority < MaxPriority
                    /\ \E r \in {process_batch(Session, s, products_to_scan, inps)} :
                          /\ CommitRanked(r.st)
                          /\ op' = [name |-> "process_batch", source |-> s,
                                    batch |-> products_to_scan,
                                    inps |-> [i \in DOMAIN inps |-> Fetched(inps[i])],
                                    result |-> r.result]

NextFair == FairRefreshSitemap \/ FairProcessBatch

\* the scheduler's interval job keeps running batches
SpecFair == InitFair /\ [][NextFair]_vars /\ WF_vars(FairProcessBatch)

\* C8: while batches of a source keep being run, every entry of the source
\* that was never scanned or has error_count > 0 is eventually in the work
\* set of some batch.
C8_NoStarvation ==
    \A k \in FairKeys :
        (queue[k] # None /\ Urgent(queue[k]))
            ~> (op.name = "process_batch" /\ k \in Elems(op.batch))

(* ------------------- process_batch, statement by statement -------------- *)
\* SpecBatch runs process_batch one statement group at a time.  While a call
\* is in progress op is its frame: the work set, the position i of the for
\* loop, the session's uncommitted view st, the tables as the call found
\* them (entry), the fetch outcomes met so far, the pacing sleeps made
\* between fetches (sleeps; the loop of process_batch awaits one fetch after
\* the other and has no asyncio.sleep),
\* the ids handed to the scraper, and the number of commits made.  queue,
\* products and history are the committed tables throughout.

\* size of the work set of a call
MaxBatchItems == 2
\* a call starts only while the clock is below this
MaxBatchClock == 4

\* settings.concurrent_requests, scaled down to the work sets of this
\* specification (15 in config.py)
ConcurrentRequests == 1
\* settings.batch_duration_minutes * 60
BatchDurationSeconds == 600

\* the sleeps of BaseScraper.process_products_batch from chunk start i on:
\* after each chunk of batch_size_concurrent tasks but the last it sleeps
\* delay_between_requests * batch_size_concurrent
RECURSIVE chunk_sleeps(_, _, _)
chunk_sleeps(batch_size, batch_size_concurrent, i) ==
    IF i + batch_size_concurrent < batch_size
    THEN <<(BatchDurationSeconds \div batch_size) * batch_size_concurrent>> \o
         chunk_sleeps(batch_size, batch_size_concurrent, i + batch_size_concurrent)
    ELSE <<>>

\* the sizes of the chunks process_products_batch gathers, from start i on
RECURSIVE chunk_sizes(_, _, _)
chunk_sizes(batch_size, batch_size_concurrent, i) ==
    IF i >= batch_size
    THEN <<>>
    ELSE <<Min(batch_size_concurrent, batch_size - i)>> \o
         chunk_sizes(batch_size, batch_size_concurrent, i + batch_size_concurrent)

\* BaseScraper.process_products_batch: the chunks it issues and the sleeps it
\* makes for a list of batch_size ids.  No caller exists; process_batch has
\* its own loop
process_products_batch(batch_size) ==
    IF batch_size = 0
    THEN [chunks |-> <<>>, sleeps |-> <<>>]
    ELSE [chunks |-> chunk_sizes(batch_size, ConcurrentRequests, 0),
          sleeps |-> chunk_sleeps(batch_size, ConcurrentRequests, 0)]

\* settings.batch_size_fraction, 0.020833333, as numerator and denominator
batch_size_fraction == <<20833333, 1000000000>>

\* BaseScraper.calculate_batch_size: max(1, int(total_products * fraction)).
\* No caller but get_next_batch_products exists; get_next_batch_with_metadata
\* asks for a fixed number of rows
calculate_batch_size(total_products) ==
    LET size == (total_products * batch_size_fraction[1]) \div batch_size_fraction[2]
    IN  IF size > 1 THEN size ELSE 1

\* what the HTTP exchange of one fetch can end in: the product's JSON at one
\* of two prices, JSON that the schema of upsert_product rejects, an answer
\* without a product ("missing": 4xx or an empty body), or no answer at all
\* after the retries ("unreachable": httpx.RequestError on each attempt)
FetchOutcomes ==
    {[kind |-> "missing", price |-> NULL, unit |-> NULL, gap |-> 0],
     [kind |-> "unreachable", price |-> NULL, unit |-> NULL, gap |-> 0],
     [kind |-> "data", price |-> 1990, unit |-> 1990, gap |-> 0],
     [kind |-> "data", price |-> 1994, unit |-> 1990, gap |-> 0],
     [kind |-> "invalid", price |-> 1990, unit |-> 1990, gap |-> 0]}

\* BonpreuScraper.fetch_product_details over BaseScraper.make_request:
\* make_request returns None once the retries are used up and for a client
\* error alike, and fetch_product_details hands that None on
fetch_product_details(outcome) ==
    IF outcome.kind \in {"missing", "unreachable"}
    THEN [kind |-> "not_found", price |-> NULL, unit |-> NULL, gap |-> 0]
    ELSE outcome

\* where a top-level exception can strike: the query for the work set, a
\* statement between two items, the commit
BatchFaults == {"none", "query", "between", "commit"}

ResultFailure ==
    [success |-> FALSE, products_processed |-> 0, products_updated |-> 0,
     errors |-> 0]

\* the frame of a call that has just read its work set
batch_start(st, supermarket_name, products_to_scan, fault) ==
    LET frame == [name |-> "process_batch", source |-> supermarket_name,
                  batch |-> products_to_scan, i |-> 1, st |-> st,
                  entry |-> [queue |-> st.queue, products |-> st.products,
                             history |-> st.history],
                  outcomes |-> <<>>, attempted |-> <<>>, sleeps |-> <<>>,
                  commits |-> 0,
                  fault |-> fault, pc |-> "items", result |-> ResultFailure]
    IN  IF fault = "query"
        THEN [frame EXCEPT !.batch = <<>>, !.pc = "done"]
        ELSE IF Len(products_to_scan) = 0
        THEN [frame EXCEPT !.pc = "done",
                           !.result = [success |-> TRUE, products_processed |-> 0,
                                       products_updated |-> 0, errors |-> 0]]
        ELSE frame

\* one turn of the for loop whose try block lets the item's exception out
batch_step_no_except(frame, outcome) ==
    LET product_id == frame.batch[frame.i][1]
        turned == [frame EXCEPT
                     !.st = batch_item(frame.st, frame.source, product_id,
                                       fetch_product_details(outcome)),
                     !.outcomes = Append(@, outcome),
                     !.attempted = Append(@, product_id),
                     !.i = @ + 1]
    IN  IF outcome.kind = "invalid"
        THEN [turned EXCEPT !.pc = "done", !.result = ResultFailure]
        ELSE turned

\* one turn of the for loop that commits after its item
batch_step_commits(frame, outcome) ==
    LET product_id == frame.batch[frame.i][1]
    IN  [frame EXCEPT
           !.st = batch_item(frame.st, frame.source, product_id,
                             fetch_product_details(outcome)),
           !.outcomes = Append(@, outcome),
           !.attempted = Append(@, product_id),
           !.i = @ + 1,
           !.commits = @ + 1]

\* one turn of the for loop of process_batch: fetch, then batch_item
batch_step(frame, outcome) ==
    LET product_id == frame.batch[frame.i][1]
    IN  [frame EXCEPT
           !.st = batch_item(frame.st, frame.source, product_id,
                             fetch_product_details(outcome)),
           !.outcomes = Append(@, outcome),
           !.attempted = Append(@, product_id),
           !.i = @ + 1]

\* an except block that commits what the session holds
batch_abort_commits(frame, fault) ==
    [frame EXCEPT !.pc = "done", !.fault = fault, !.result = ResultFailure,
                  !.commits = @ + 1]

\* the outer except block of process_batch: rollback, zero counts
batch_abort(frame, fault) ==
    [frame EXCEPT !.pc = "done", !.fault = fault, !.result = ResultFailure]

\* the statements after the for loop: update_scan_results, commit, result
batch_finish(frame) ==
    LET final == [frame.st EXCEPT !.queue =
                     update_scan_results(frame.st.queue, frame.batch, frame.st.now)]
    IN  [frame EXCEPT
           !.st = final, !.pc = "done", !.commits = @ + 1,
           !.result = [success |-> TRUE,
                       products_processed |-> Len(frame.batch),
                       products_updated |-> final.updated_count,
                       errors |-> final.error_count]]

\* no call is in progress
Idle == IF op.name = "init" THEN TRUE ELSE op.pc = "done"

\* the frame after a statement group, and the committed tables: the
\* session's when the group committed, else as before
Committed(frame) ==
    /\ op' = frame
    /\ now' = frame.st.now
    /\ IF frame.commits > (IF Idle THEN 0 ELSE op.commits)
       THEN /\ queue' = frame.st.queue
            /\ products' = frame.st.products
            /\ history' = frame.st.history
       ELSE UNCHANGED <<queue, products, history>>

\* rows of the bonpreu queue before a call: none, enqueued, scanned at time 1
InitBatch ==
    /\ queue \in [Keys -> {None, NewEntry(0), Scanned(NewEntry(0), TRUE, 1)}]
    /\ \A k \in Keys : k[2] \notin ScrapedSources => queue[k] = None
    /\ products = [k \in Keys |-> None]
    /\ history = <<>>
    /\ now = 1
    /\ op = [name |-> "init"]

BatchStart ==
    /\ Idle
    /\ now < MaxBatchClock
    /\ \E s \in ScrapedSources, fault \in {"none", "query"} :
        \E cands \in get_products_to_scan(queue, s, MaxBatchItems * 2) :
            Committed(batch_start(Session, s,
                                  get_next_batch(queue, cands, MaxBatchItems),
                                  fault))

BatchStep ==
    /\ ~Idle
    /\ op.i <= Len(op.batch)
    /\ \E outcome \in FetchOutcomes : Committed(batch_step(op, outcome))

BatchRaise ==
    /\ ~Idle
    /\ op.i <= Len(op.batch)
    /\ Committed(batch_abort(op, "between"))

BatchFinish ==
    /\ ~Idle
    /\ op.i > Len(op.batch)
    /\ \/ Committed(batch_finish(op))
       \/ Committed(batch_abort(op, "commit"))

NextBatch == BatchStart \/ BatchStep \/ BatchRaise \/ BatchFinish

SpecBatch == InitBatch /\ [][NextBatch]_vars

(* --------------------- the trigger routes of the API -------------------- *)
\* SpecTrigger: a POST to one of the three scraper routes answers at once and
\* leaves the service call to a background task, which runs after the
\* response was sent.  op is the last response, with the task it queued, or
\* the outcome of the last finished task.

\* supermarket names a caller can put in the path: one with a scraper, one
\* without
RequestNames == ScrapedSources \cup {"carrefour"}

\* the ScrapingResult a route returns
Acknowledgement(route, supermarket_name, product_id) ==
    [name |-> route, supermarket_name |-> supermarket_name,
     product_id |-> product_id, pending |-> TRUE,
     response |-> [success |-> TRUE,
                   message |-> CASE route = "refresh_products" -> "Sitemap refresh started"
                                 [] route = "scan_batch" -> "Batch scan started"
                                 [] OTHER -> "Product scan started",
                   products_processed |-> IF route = "scan_single_product" THEN 1 ELSE 0,
                   products_updated |-> 0, errors |-> 0]]

\* no background task is waiting
NoTask == IF op.name = "init" THEN TRUE ELSE ~op.pending

\* the record of a finished background task
Finished(task, raised, result) ==
    [name |-> "background_task", route |-> task.name,
     supermarket_name |-> task.supermarket_name, pending |-> FALSE,
     raised |-> raised, result |-> result]

RefreshProducts ==
    /\ NoTask
    /\ \E name \in RequestNames :
        op' = Acknowledgement("refresh_products", name, NULL)
    /\ UNCHANGED <<queue, products, history, now>>

ScanBatch ==
    /\ NoTask
    /\ \E name \in RequestNames :
        op' = Acknowledgement("scan_batch", name, NULL)
    /\ UNCHANGED <<queue, products, history, now>>

ScanSingleProduct ==
    /\ NoTask
    /\ \E name \in RequestNames, pid \in Items :
        op' = Acknowledgement("scan_single_product", name, pid)
    /\ UNCHANGED <<queue, products, history, now>>

\* the background task of a request for a name without a scraper: the
\* service method raises ValueError in its first statement
TaskUnknown ==
    /\ ~NoTask
    /\ op.supermarket_name \notin Sources
    /\ op' = Finished(op, TRUE, [success |-> FALSE, message |-> "Unknown supermarket"])
    /\ UNCHANGED <<queue, products, history, now>>

TaskRefreshSitemap ==
    /\ ~NoTask
    /\ op.name = "refresh_products"
    /\ op.supermarket_name \in Sources
    /\ now < MaxTime
    /\ \E ids \in SitemapLists :
        LET r == refresh_sitemap(Session, op.supermarket_name, ids, "none")
        IN  /\ Commit(r.st)
            /\ op' = Finished(op, FALSE, r.result)

TaskProcessBatch ==
    /\ ~NoTask
    /\ op.name = "scan_batch"
    /\ op.supermarket_name \in Sources
    /\ now < MaxTime
    /\ \E cands \in get_products_to_scan(queue, op.supermarket_name, BatchSize * 2) :
        LET products_to_scan == get_next_batch(queue, cands, BatchSize)
        IN  \E inps \in [1..Len(products_to_scan) -> FairInputs] :
                LET r == process_batch(Session, op.supermarket_name,
                                       products_to_scan, inps)
                IN  /\ Commit(r.st)
                    /\ op' = Finished(op, FALSE, r.result)

TaskProcessProduct ==
    /\ ~NoTask
    /\ op.name = "scan_single_product"
    /\ op.supermarket_name \in Sources
    /\ now < MaxTime
    /\ \E inp \in FairInputs :
        LET r == process_product(Session, op.supermarket_name, op.product_id, inp)
        IN  /\ Commit(r.st)
            /\ op' = Finished(op, FALSE, r.result)

NextTrigger ==
    \/ RefreshProducts \/ ScanBatch \/ ScanSingleProduct
    \/ TaskUnknown \/ TaskRefreshSitemap \/ TaskProcessBatch \/ TaskProcessProduct

SpecTrigger == Init /\ [][NextTrigger]_vars

\* C23: a request that names a supermarket without a scraper is never
\* answered with an acknowledgement that the work has started
C23_UnknownSourceNotAcknowledged ==
    (op.name \in {"refresh_products", "scan_batch", "scan_single_product"}
       /\ op.response.success) =>
        op.supermarket_name \in Sources

(* ----------------------------- make_request ----------------------------- *)
\* SpecRequest: BaseScraper.make_request, one HTTP attempt per step.  op is
\* the call's frame: the retries argument, the loop variable attempt, the
\* outcome of each attempt made (outcomes), the backoff slept after each
\* (waits, 0 for none; the jitter before every attempt is left out), and the
\* value returned.

\* largest retries argument
MaxRetries == 3

\* what client.get and raise_for_status can end in: a 2xx response, 429,
\* 5xx, another status that raises HTTPStatusError, httpx.RequestError, any
\* other exception
AttemptOutcomes ==
    {"ok", "rate_limited", "server_error", "client_error", "request_error",
     "exception"}

\* random.uniform(1, 3), at its ends and its middle
RateLimitExtras == {1, 2, 3}

RECURSIVE Pow2(_)
Pow2(n) == IF n = 0 THEN 1 ELSE 2 * Pow2(n - 1)

\* the frame of make_request(url, retries) on entry; range(0) makes no turn
request_start(retries) ==
    [name |-> "make_request", retries |-> retries, attempt |-> 0,
     outcomes |-> <<>>, waits |-> <<>>,
     pc |-> IF retries = 0 THEN "done" ELSE "loop",
     response |-> "none"]

\* the frame after an attempt that does not end the call: the backoff is
\* slept and the for loop moves on, returning None when it is used up
request_next(frame, outcome, wait) ==
    [frame EXCEPT
       !.outcomes = Append(@, outcome),
       !.waits = Append(@, wait),
       !.attempt = @ + 1,
       !.pc = IF frame.attempt + 1 < frame.retries THEN "loop" ELSE "done"]

\* the frame after an attempt that ends the call with value
request_return(frame, outcome, value) ==
    [frame EXCEPT
       !.outcomes = Append(@, outcome),
       !.waits = Append(@, 0),
       !.pc = "done",
       !.response = value]

\* a retry loop that treats every HTTPStatusError as a server error
request_attempt_retries_all(frame, outcome, extra) ==
    CASE outcome = "ok" -> request_return(frame, outcome, "response")
      [] outcome = "rate_limited" ->
            request_next(frame, outcome, Pow2(frame.attempt) + extra)
      [] outcome \in {"server_error", "client_error"} ->
            request_next(frame, outcome, Pow2(frame.attempt))
      [] outcome = "request_error" ->
            IF frame.attempt < frame.retries - 1
            THEN request_next(frame, outcome, Pow2(frame.attempt))
            ELSE request_return(frame, outcome, "none")
      [] OTHER -> request_return(frame, outcome, "none")

\* a retry loop in which an attempt answered with 429 is not counted
request_attempt_uncounted(frame, outcome, extra) ==
    CASE outcome = "ok" -> request_return(frame, outcome, "response")
      [] outcome = "rate_limited" ->
            [frame EXCEPT !.outcomes = Append(@, outcome),
                          !.waits = Append(@, Pow2(frame.attempt) + extra)]
      [] outcome = "server_error" ->
            request_next(frame, outcome, Pow2(frame.attempt))
      [] outcome = "client_error" -> request_return(frame, outcome, "none")
      [] outcome = "request_error" ->
            IF frame.attempt < frame.retries - 1
            THEN request_next(frame, outcome, Pow2(frame.attempt))
            ELSE request_return(frame, outcome, "none")
      [] OTHER -> request_return(frame, outcome, "none")

\* one turn of the for loop of make_request
request_attempt(frame, outcome, extra) ==
    CASE outcome = "ok" -> request_return(frame, outcome, "response")
      [] outcome = "rate_limited" ->
            request_next(frame, outcome, Pow2(frame.attempt) + extra)
      [] outcome = "server_error" ->
            request_next(frame, outcome, Pow2(frame.attempt))
      [] outcome = "client_error" -> request_return(frame, outcome, "none")
      [] outcome = "request_error" ->
            IF frame.attempt < frame.retries - 1
            THEN request_next(frame, outcome, Pow2(frame.attempt))
            ELSE request_return(frame, outcome, "none")
      [] OTHER -> request_return(frame, outcome, "none")

\* no call of make_request is in progress
NoRequest == IF op.name = "init" THEN TRUE ELSE op.pc = "done"

MakeRequest ==
    /\ NoRequest
    /\ \E retries \in 0..MaxRetries : op' = request_start(retries)
    /\ UNCHANGED <<queue, products, history, now>>

Attempt ==
    /\ ~NoRequest
    /\ \E outcome \in AttemptOutcomes, extra \in RateLimitExtras :
        op' = request_attempt(op, outcome, extra)
    /\ UNCHANGED <<queue, products, history, now>>

NextRequest == MakeRequest \/ Attempt

\* the event loop resumes a call that is waiting
SpecRequest == Init /\ [][NextRequest]_vars /\ WF_vars(Attempt)

(* ------------------------- make_request claims -------------------------- *)
RequestFrame == op.name = "make_request"

Retryable == {"rate_limited", "server_error", "request_error"}

\* C30: a call of make_request makes at most retries attempts and ends; it
\* returns a response exactly when its last attempt succeeded, and an attempt
\* that met 429, 5xx or a transport error is followed by another attempt
\* while fewer than retries were made
C30_RequestBoundedRetries ==
    /\ [](RequestFrame =>
            /\ Len(op.outcomes) <= op.retries
            /\ op.pc = "loop" => Len(op.outcomes) < op.retries
            /\ op.response = "response" <=>
                  (op.pc = "done" /\ op.outcomes # <<>>
                     /\ op.outcomes[Len(op.outcomes)] = "ok")
            /\ \A i \in DOMAIN op.outcomes :
                  (op.outcomes[i] \in Retryable /\ i < op.retries) =>
                      (op.pc = "loop" \/ i < Len(op.outcomes)))
    /\ (RequestFrame /\ op.pc = "loop") ~> (RequestFrame /\ op.pc = "done")

\* a call that used its three attempts on 429, a transport error and 5xx and
\* gave up, having slept after each
C30_Witness ==
    /\ RequestFrame
    /\ op.retries = 3
    /\ op.outcomes = <<"rate_limited", "request_error", "server_error">>
    /\ op.pc = "done" /\ op.response = "none"
    /\ op.waits[1] >= 2 /\ op.waits[2] = 2 /\ op.waits[3] = 4

(* ----------------------------- rate limiter ----------------------------- *)
\* SpecThrottle: the calls of make_request of one scraper instance against
\* its Throttler, in whole seconds.  op is the instance: its clock, the
\* throttler's log of admissions (task_logs), the frame of the call in
\* progress (call, None between calls), the time its backoff ends (wake), and
\* the times of the HTTP attempts made during the current period (sent).
\* The calls follow one another, as process_batch issues them; the jitter of
\* less than a second before each attempt is left out.

\* last second of the clock
MaxThrottleClock == 4

\* Throttler(period=1.0), in seconds
Period == 1

\* Throttler.flush: admissions older than one period leave the log
RECURSIVE throttler_flush(_, _)
throttler_flush(task_logs, clock) ==
    IF task_logs # <<>> /\ clock - Head(task_logs) > Period
    THEN throttler_flush(Tail(task_logs), clock)
    ELSE task_logs

\* Throttler.acquire can return at clock: fewer than rate_limit admissions
\* are left in the log
throttler_admits(task_logs, clock) ==
    Len(throttler_flush(task_logs, clock)) < ConcurrentRequests

\* Throttler.acquire: the admission is logged
throttler_acquire(task_logs, clock) ==
    Append(throttler_flush(task_logs, clock), clock)

\* the scraper after __init__
NewScraper ==
    [name |-> "scraper", clock |-> 0, task_logs |-> <<>>, call |-> None,
     wake |-> 0, sent |-> <<>>]

\* the attempts of sent that lie less than one period before clock
sent_within(sent, clock) == SelectSeq(sent, LAMBDA t : clock - t < Period)

\* make_request up to its for loop: async with self.throttler
throttled_enter(scraper, retries) ==
    [scraper EXCEPT
       !.task_logs = throttler_acquire(@, scraper.clock),
       !.call = request_start(retries),
       !.wake = scraper.clock]

\* one turn of the for loop: client.get is sent, and the backoff that
\* follows it is slept before the next turn
throttled_attempt(scraper, outcome, extra) ==
    LET frame == request_attempt(scraper.call, outcome, extra)
    IN [scraper EXCEPT
          !.sent = Append(sent_within(@, scraper.clock), scraper.clock),
          !.call = IF frame.pc = "done" THEN None ELSE frame,
          !.wake = scraper.clock + frame.waits[Len(frame.waits)]]

InitThrottle ==
    /\ queue = [k \in Keys |-> None]
    /\ products = [k \in Keys |-> None]
    /\ history = <<>>
    /\ now = 0
    /\ op = NewScraper

ThrottledEnter ==
    /\ op.call = None
    /\ op.clock >= op.wake
    /\ throttler_admits(op.task_logs, op.clock)
    /\ \E retries \in 1..MaxRetries : op' = throttled_enter(op, retries)
    /\ UNCHANGED <<queue, products, history, now>>

ThrottledAttempt ==
    /\ op.call # None
    /\ op.clock = op.wake
    /\ \E outcome \in AttemptOutcomes, extra \in RateLimitExtras :
        op' = throttled_attempt(op, outcome, extra)
    /\ UNCHANGED <<queue, products, history, now>>

\* a second passes; an attempt that is due is sent before it does
Second ==
    /\ op.clock < MaxThrottleClock
    /\ op.call # None => op.clock < op.wake
    /\ op' = [op EXCEPT !.clock = @ + 1,
                        !.sent = sent_within(@, op.clock + 1)]
    /\ UNCHANGED <<queue, products, history, now>>

NextThrottle == ThrottledEnter \/ ThrottledAttempt \/ Second

SpecThrottle == InitThrottle /\ [][NextThrottle]_vars

(* -------------------------- rate limiter claims ------------------------- *)
\* C31: within one limiter period a scraper instance sends no more HTTP
\* attempts, retries included, than the rate limit
C31_AttemptsWithinRateLimit ==
    op.name = "scraper" =>
        Len(sent_within(op.sent, op.clock)) <= ConcurrentRequests

(* ------------------------------ scheduler ------------------------------- *)
\* SpecScheduler: the ScrapingScheduler singleton.  op is the object: the
\* flag is_running, the map last_sitemap_refresh, the AsyncIOScheduler it
\* owns (state and job store) and the job callback in flight (run).  call is
\* the method or event that produced the state, and discovered is the time
\* of the last successful refresh_sitemap of each supermarket, kept for
\* comparison.  One callback is in flight at a time.

\* the clock stops the runs here
MaxSchedClock == 4

\* self.scrapers.keys(), in insertion order
SweepOrder == <<"bonpreu", "mercadona">>

JobIds == {"daily_sitemap_refresh", "batch_processing"}

\* sitemaps a scheduled or manual refresh can find
SchedSitemapLists == {<<>>, <<1>>}

\* what can go wrong in the call for one supermarket: nothing, the commit
\* raising (handled inside the call), or an exception that leaves the call
\* (db.rollback() raising in its except block)
SweepFaults == {"none", "commit", "raised"}

NoRun ==
    [job |-> "none", pc |-> "idle", i |-> 0, results |-> <<>>,
     session |-> "none", cancelled |-> FALSE, returned |-> FALSE,
     fault |-> "none"]

\* ScrapingScheduler.__init__
NewScheduler ==
    [name |-> "scheduler", call |-> "init", is_running |-> FALSE,
     state |-> "stopped", jobs |-> <<>>,
     last_sitemap_refresh |-> [s \in Sources |-> NULL],
     run |-> NoRun,
     discovered |-> [s \in Sources |-> NULL]]

\* AsyncIOScheduler.add_job without replace_existing and without an id check
add_job_appends(jobs, id) == Append(jobs, id)

\* AsyncIOScheduler.add_job(..., id=id, replace_existing=True)
add_job(jobs, id) ==
    IF \E i \in DOMAIN jobs : jobs[i] = id THEN jobs ELSE Append(jobs, id)

\* start without the is_running test, adding its jobs again
start_unguarded(sch) ==
    [sch EXCEPT
       !.jobs = add_job_appends(add_job_appends(@, "daily_sitemap_refresh"),
                                "batch_processing"),
       !.state = "running",
       !.is_running = TRUE]

\* ScrapingScheduler.start
start(sch) ==
    IF sch.is_running
    THEN sch
    ELSE [sch EXCEPT
            !.jobs = add_job(add_job(@, "daily_sitemap_refresh"), "batch_processing"),
            !.state = "running",
            !.is_running = TRUE]

\* ScrapingScheduler.stop.  AsyncIOScheduler.shutdown stops the firing,
\* empties the memory job store and has the executor cancel the futures of
\* the coroutine jobs still running
stop(sch) ==
    IF ~sch.is_running
    THEN sch
    ELSE [sch EXCEPT
            !.state = "stopped",
            !.jobs = <<>>,
            !.run = IF @.pc = "sweep" THEN [@ EXCEPT !.cancelled = TRUE] ELSE @,
            !.is_running = FALSE]

\* a job of the store comes due: the callback opens its session
fire(sch, job) ==
    [sch EXCEPT !.run = [NoRun EXCEPT !.job = job, !.pc = "sweep", !.i = 1,
                                      !.session = "open"]]

\* the result recorded when the call for a supermarket raised
RaisedResult ==
    [success |-> FALSE, message |-> "raised", products_processed |-> 0]

\* one turn of the for loop of a sweep that lets the exception out: the
\* callback's except block ends the run
sweep_step_no_except(run, supermarket_name, raised, result) ==
    IF raised
    THEN [run EXCEPT !.pc = "done", !.session = "closed", !.returned = TRUE]
    ELSE [run EXCEPT
            !.results = Append(@, [source |-> supermarket_name, result |-> result]),
            !.i = @ + 1]

\* one turn of the for loop of refresh_all_sitemaps / process_all_batches
sweep_step(run, supermarket_name, raised, result) ==
    [run EXCEPT
       !.results = Append(@, [source |-> supermarket_name,
                              result |-> IF raised THEN RaisedResult ELSE result]),
       !.i = @ + 1]

\* the callback after its sweep returned: the timestamps of the successful
\* refreshes (discovery job only), then finally db.close()
callback_finish(sch, t) ==
    [sch EXCEPT
       !.last_sitemap_refresh =
           [s \in Sources |->
               IF /\ sch.run.job = "daily_sitemap_refresh"
                  /\ \E i \in DOMAIN sch.run.results :
                        /\ sch.run.results[i].source = s
                        /\ sch.run.results[i].result.success
               THEN t
               ELSE @[s]],
       !.run = [@ EXCEPT !.pc = "done", !.session = "closed", !.returned = TRUE]]

\* a callback whose exception path skips db.close()
callback_except_leaks(sch) ==
    [sch EXCEPT !.run = [@ EXCEPT !.pc = "done", !.returned = TRUE,
                                  !.fault = "callback"]]

\* the callback when its try block raises an Exception: except logs it,
\* finally closes the session, the callback returns
callback_except(sch) ==
    [sch EXCEPT !.run = [@ EXCEPT !.pc = "done", !.session = "closed",
                                  !.returned = TRUE, !.fault = "callback"]]

\* the callback when its task was cancelled: CancelledError is no Exception,
\* so no except block of the call, the sweep or the callback handles it;
\* finally closes the session, which drops the uncommitted work
callback_cancelled(sch) ==
    [sch EXCEPT !.run = [@ EXCEPT !.pc = "done", !.session = "closed",
                                  !.returned = FALSE]]

CommitSched(st) ==
    /\ st.now <= MaxSchedClock
    /\ queue' = st.queue
    /\ products' = st.products
    /\ history' = st.history
    /\ now' = st.now

InitScheduler ==
    /\ queue = [k \in Keys |-> None]
    /\ products = [k \in Keys |-> None]
    /\ history = <<>>
    /\ now = 0
    /\ op = NewScheduler

Start ==
    /\ op' = [start(op) EXCEPT !.call = "start"]
    /\ UNCHANGED <<queue, products, history, now>>

Stop ==
    /\ op' = [stop(op) EXCEPT !.call = "stop"]
    /\ UNCHANGED <<queue, products, history, now>>

Fire ==
    /\ op.state = "running"
    /\ op.run.pc # "sweep"
    /\ \E i \in DOMAIN op.jobs :
        op' = [fire(op, op.jobs[i]) EXCEPT !.call = "fire"]
    /\ UNCHANGED <<queue, products, history, now>>

SweepRefresh ==
    /\ op.run.pc = "sweep" /\ ~op.run.cancelled
    /\ op.run.job = "daily_sitemap_refresh"
    /\ op.run.i <= Len(SweepOrder)
    /\ \E ids \in SchedSitemapLists, fault \in SweepFaults :
        LET s == SweepOrder[op.run.i]
            r == refresh_sitemap(Session, s, ids,
                                 IF fault = "none" THEN "none" ELSE "commit")
        IN  /\ CommitSched(r.st)
            /\ op' = [op EXCEPT
                        !.call = "sweep",
                        !.run = sweep_step(@, s, fault = "raised", r.result),
                        !.discovered[s] = IF r.result.success THEN r.st.now ELSE @]

SweepBatch ==
    /\ op.run.pc = "sweep" /\ ~op.run.cancelled
    /\ op.run.job = "batch_processing"
    /\ op.run.i <= Len(SweepOrder)
    /\ \E raised \in BOOLEAN :
        LET s == SweepOrder[op.run.i]
        IN  \E cands \in get_products_to_scan(queue, s, BatchSize * 2) :
              LET products_to_scan == get_next_batch(queue, cands, BatchSize)
              IN  \E inps \in [1..Len(products_to_scan) -> FairInputs] :
                    LET r == process_batch(Session, s, products_to_scan, inps)
                    IN  /\ IF raised
                           THEN CommitSched([Session EXCEPT !.now = r.st.now])
                           ELSE CommitSched(r.st)
                        /\ op' = [op EXCEPT
                                    !.call = "sweep",
                                    !.run = sweep_step(@, s, raised, r.result)]

CallbackFinish ==
    /\ op.run.pc = "sweep" /\ ~op.run.cancelled
    /\ op.run.i > Len(SweepOrder)
    /\ op' = [callback_finish(op, now) EXCEPT !.call = "callback_return"]
    /\ UNCHANGED <<queue, products, history, now>>

CallbackExcept ==
    /\ op.run.pc = "sweep" /\ ~op.run.cancelled
    /\ op' = [callback_except(op) EXCEPT !.call = "callback_return"]
    /\ UNCHANGED <<queue, products, history, now>>

CallbackCancelled ==
    /\ op.run.pc = "sweep" /\ op.run.cancelled
    /\ op' = [callback_cancelled(op) EXCEPT !.call = "callback_cancelled"]
    /\ UNCHANGED <<queue, products, history, now>>

\* the background task of POST /scrapers/{name}/refresh-products
ManualRefresh ==
    /\ now < MaxSchedClock
    /\ \E s \in ScrapedSources, ids \in SchedSitemapLists :
        LET r == refresh_sitemap(Session, s, ids, "none")
        IN  /\ CommitSched(r.st)
            /\ op' = [op EXCEPT
                        !.call = "refresh_products",
                        !.discovered[s] = IF r.result.success THEN r.st.now ELSE @]

NextScheduler ==
    \/ Start \/ Stop \/ Fire \/ SweepRefresh \/ SweepBatch
    \/ CallbackFinish \/ CallbackExcept \/ CallbackCancelled \/ ManualRefresh

SpecScheduler == InitScheduler /\ [][NextScheduler]_vars

(* --------------------------- scheduler claims --------------------------- *)
\* how often a job id stands in the job store
JobCount(sch, id) == Cardinality({i \in DOMAIN sch.jobs : sch.jobs[i] = id})

\* C24: the scheduler has two states.  start leaves is_running true and stop
\* leaves it false, nothing else changes it; start while running and stop
\* while stopped change nothing of the scheduler; and the job store never
\* holds more than one discovery job and one batch job
C24_TwoStateScheduler ==
    [][/\ op'.call = "start" => op'.is_running
       /\ op'.call = "stop" => ~op'.is_running
       /\ op'.call \notin {"start", "stop"} => op'.is_running = op.is_running
       /\ (op'.call = "start" /\ op.is_running) => op' = [op EXCEPT !.call = "start"]
       /\ (op'.call = "stop" /\ ~op.is_running) => op' = [op EXCEPT !.call = "stop"]
       /\ op'.is_running <=> op'.state = "running"
       /\ \A id \in JobIds : JobCount(op', id) <= 1]_vars

\* the scheduler was started, stopped while a callback ran, and started
\* again: it runs and the store holds one job of each kind
C24_Witness ==
    /\ op.call = "start"
    /\ op.is_running
    /\ op.run.pc = "done" /\ op.run.cancelled
    /\ \A id \in JobIds : JobCount(op, id) = 1

\* C25: a job callback begins only while the scheduler runs, and a batch
\* callback that was in flight when stop was called is not cancelled: it ends
\* by returning, each call of process_batch having ended with its commit or
\* its rollback
C25_StopSparesRunInFlight ==
    [][/\ op'.call = "fire" => op.is_running
       /\ (op.run.pc = "sweep" /\ op'.run.pc = "done"
             /\ op.run.job = "batch_processing") =>
            (op'.run.returned /\ ~op.run.cancelled)]_vars

\* C26: a callback whose sweep returned has run the operation once for each
\* supermarket of self.scrapers, in order, whatever the earlier ones did: its
\* results hold one entry per supermarket
C26_SweepCoversEverySource ==
    (op.run.pc = "done" /\ ~op.run.cancelled /\ op.run.fault = "none") =>
        [i \in DOMAIN op.run.results |-> op.run.results[i].source] = SweepOrder

\* a discovery sweep whose first call raised and whose second call succeeded
C26_Witness ==
    /\ op.run.pc = "done" /\ op.run.fault = "none"
    /\ op.run.job = "daily_sitemap_refresh"
    /\ Len(op.run.results) = 2
    /\ op.run.results[1].result = RaisedResult
    /\ op.run.results[2].result.success

\* C27: a callback that is not cancelled ends by returning, with its session
\* closed, whether its calls failed, raised, or its own try block raised; the
\* sweep and the return change neither is_running nor the AsyncIOScheduler,
\* so while the scheduler runs both jobs stay in the store to fire again
C27_FailedRunKeepsScheduler ==
    [][/\ (op.run.pc = "sweep" /\ op'.run.pc = "done" /\ ~op.run.cancelled) =>
            /\ op'.run.returned
            /\ op'.run.session = "closed"
       /\ op'.call \in {"sweep", "callback_return"} =>
            /\ op'.is_running = op.is_running
            /\ op'.state = op.state
            /\ op'.jobs = op.jobs
            /\ op'.is_running =>
                 \A id \in JobIds : JobCount(op', id) = 1]_vars

\* the scheduler runs, a batch callback has just returned after one call
\* failed outright and the callback's try block raised
C27_Witness ==
    /\ op.call = "callback_return"
    /\ op.is_running
    /\ op.run.job = "batch_processing"
    /\ op.run.fault = "callback"
    /\ Len(op.run.results) = 1
    /\ op.run.results[1].result = RaisedResult
    /\ op.run.session = "closed"

\* C28: while no callback is in flight, the last_sitemap_refresh of a
\* supermarket is set exactly when some refresh_sitemap of it has succeeded,
\* by the schedule or on demand, and is then no older than the latest such
\* success
C28_LastDiscoveryIsLatestSuccess ==
    op.run.pc # "sweep" =>
        \A s \in Sources :
            /\ op.last_sitemap_refresh[s] # NULL <=> op.discovered[s] # NULL
            /\ op.last_sitemap_refresh[s] >= op.discovered[s]

(* ----------------- process_products_batch, task by task ----------------- *)
\* SpecChunks: BaseScraper.process_products_batch over n product ids with
\* concurrent_requests = c.  op is the call's frame: the state of each task
\* ("created", "waiting" for the semaphore, "running" its fetch, "done"), the
\* semaphore's free permits, the start i of the chunk being gathered, the
\* order in which the fetches began (started), the tasks whose fetch raised,
\* the number of chunks gathered,
\* the sleeps made (as numerator and denominator of seconds), the counters.

\* longest id list
MaxChunkItems == 4
\* largest settings.concurrent_requests
MaxConcurrent == 2

\* what a fetch_product_details call can end in
TaskOutcomes == {"data", "none", "raises"}

\* the frame on entry, up to the for loop over the chunks
chunks_start(n, c) ==
    [name |-> "process_products_batch", n |-> n, c |-> c, i |-> 0,
     task |-> [j \in 1..n |-> "created"], permits |-> c,
     started |-> <<>>, raised |-> {}, chunks |-> 0, sleeps |-> <<>>,
     results |-> [processed |-> 0, updated |-> 0, errors |-> 0],
     pc |-> IF n = 0 THEN "done" ELSE "gather"]

\* the tasks of the chunk that starts at i
ChunkTasks(frame) ==
    {j \in 1..frame.n : frame.i < j /\ j <= frame.i + frame.c}

\* asyncio.gather over tasks[i:i + c], from task j on: each task enters
\* "async with semaphore" in list order and starts its fetch when a permit
\* is free
RECURSIVE gather_from(_, _)
gather_from(frame, j) ==
    IF j \notin ChunkTasks(frame)
    THEN frame
    ELSE IF frame.permits > 0
    THEN gather_from([frame EXCEPT !.task[j] = "running",
                                   !.permits = @ - 1,
                                   !.started = Append(@, j)], j + 1)
    ELSE gather_from([frame EXCEPT !.task[j] = "waiting"], j + 1)

\* the for loop reaches asyncio.gather
chunk_gather(frame) ==
    [gather_from(frame, frame.i + 1) EXCEPT !.chunks = @ + 1, !.pc = "wait"]

\* the first task that waits for the semaphore gets the permit
admit_waiting(frame) ==
    IF frame.permits > 0 /\ \E j \in 1..frame.n : frame.task[j] = "waiting"
    THEN LET j == CHOOSE x \in 1..frame.n :
                     /\ frame.task[x] = "waiting"
                     /\ \A y \in 1..frame.n : frame.task[y] = "waiting" => x <= y
         IN [frame EXCEPT !.task[j] = "running", !.permits = @ - 1,
                          !.started = Append(@, j)]
    ELSE frame

\* process_single_product whose semaphore is not released when the fetch
\* raises
fetch_returns_leaks(frame, j, outcome) ==
    admit_waiting(
        [frame EXCEPT
           !.task[j] = "done",
           !.raised = IF outcome = "raises" THEN @ \cup {j} ELSE @,
           !.permits = IF outcome = "raises" THEN @ ELSE @ + 1,
           !.results = IF outcome = "data"
                       THEN [@ EXCEPT !.processed = @ + 1, !.updated = @ + 1]
                       ELSE [@ EXCEPT !.errors = @ + 1]])

\* process_single_product after its fetch: the counters, and the end of
\* "async with semaphore"
fetch_returns(frame, j, outcome) ==
    admit_waiting(
        [frame EXCEPT
           !.task[j] = "done",
           !.raised = IF outcome = "raises" THEN @ \cup {j} ELSE @,
           !.permits = @ + 1,
           !.results = IF outcome = "data"
                       THEN [@ EXCEPT !.processed = @ + 1, !.updated = @ + 1]
                       ELSE [@ EXCEPT !.errors = @ + 1]])

\* the for loop sleeping after every chunk, the last included
chunk_done_always_sleeps(frame) ==
    [frame EXCEPT
       !.sleeps = Append(@, <<BatchDurationSeconds * frame.c, frame.n>>),
       !.i = @ + frame.c,
       !.pc = IF frame.i + frame.c < frame.n THEN "gather" ELSE "done"]

\* gather has returned: asyncio.sleep(delay_between_requests * c) unless
\* this was the last chunk, then the next turn of the for loop
chunk_done(frame) ==
    IF frame.i + frame.c < frame.n
    THEN [frame EXCEPT
            !.sleeps = Append(@, <<BatchDurationSeconds * frame.c, frame.n>>),
            !.i = @ + frame.c, !.pc = "gather"]
    ELSE [frame EXCEPT !.i = @ + frame.c, !.pc = "done"]

NoChunks == IF op.name = "init" THEN TRUE ELSE op.pc = "done"

ProcessProductsBatch ==
    /\ NoChunks
    /\ \E n \in 0..MaxChunkItems, c \in 1..MaxConcurrent :
        op' = chunks_start(n, c)
    /\ UNCHANGED <<queue, products, history, now>>

ChunkGather ==
    /\ ~NoChunks
    /\ op.pc = "gather"
    /\ op' = chunk_gather(op)
    /\ UNCHANGED <<queue, products, history, now>>

FetchReturns ==
    /\ ~NoChunks
    /\ \E j \in 1..op.n, outcome \in TaskOutcomes :
        /\ op.task[j] = "running"
        /\ op' = fetch_returns(op, j, outcome)
    /\ UNCHANGED <<queue, products, history, now>>

ChunkDone ==
    /\ ~NoChunks
    /\ op.pc = "wait"
    /\ \A j \in ChunkTasks(op) : op.task[j] = "done"
    /\ op' = chunk_done(op)
    /\ UNCHANGED <<queue, products, history, now>>

NextChunks == ProcessProductsBatch \/ ChunkGather \/ FetchReturns \/ ChunkDone

SpecChunks == Init /\ [][NextChunks]_vars

(* ----------------------- process_products_batch claims ------------------ *)
ChunksFrame == op.name = "process_products_batch"

\* ceil(a / b)
CeilDiv(a, b) == (a + b - 1) \div b

Running == {j \in 1..op.n : op.task[j] = "running"}

\* C35: at no point are more than c fetches of a call in flight, and a fetch
\* that fails or raises gives its permit back: the permits free are always
\* c less the fetches in flight, no task is kept waiting for one, and the
\* call ends with every task done
C35_InFlightWithinCap ==
    ChunksFrame =>
        /\ Cardinality(Running) <= op.c
        /\ op.permits = op.c - Cardinality(Running)
        /\ \A j \in 1..op.n : op.task[j] # "waiting"
        /\ op.pc = "done" => \A j \in 1..op.n : op.task[j] = "done"

\* with cap 2, the two fetches of the first chunk raised, and the two of the
\* second chunk are in flight together
C35_Witness ==
    /\ ChunksFrame
    /\ op.n = 4 /\ op.c = 2
    /\ op.raised = {1, 2}
    /\ Running = {3, 4}
    /\ op.results.errors = 2

(* ------------------------- purge of old price rows ---------------------- *)
\* SpecPurge: single-item runs that build the price ledger, and
\* cleanup_old_history between them.  The clock counts days here.

\* largest days_to_keep
MaxPurgeDays == 2

\* PriceHistoryRepository.delete_old_history; t is its clock reading
delete_old_history(hist, days_to_keep, t) ==
    LET cutoff_date == t - days_to_keep
        Kept(r) == ~(r.valid_from < cutoff_date)
    IN  SelectSeq(hist, Kept)

\* PriceHistoryService.cleanup_old_history
CleanupOldHistory ==
    /\ \E days_to_keep \in 0..MaxPurgeDays :
        /\ history' = delete_old_history(history, days_to_keep, now)
        /\ op' = [name |-> "cleanup_old_history", days_to_keep |-> days_to_keep,
                  before |-> history]
    /\ UNCHANGED <<queue, products, now>>

NextPurge == ProcessProduct \/ CleanupOldHistory

SpecPurge == Init /\ [][NextPurge]_vars

\* C39: cleanup_old_history deletes closed rows only: every key that had an
\* open price row before the call has the same open row after it
C39_PurgeKeepsOpenRows ==
    op.name = "cleanup_old_history" =>
        \A k \in Keys :
            \A i \in CurrentRows(op.before, k[1], k[2]) :
                \E j \in CurrentRows(history, k[1], k[2]) :
                    history[j] = op.before[i]

(* --------------------------- overlapping runs --------------------------- *)
\* SpecOverlap: a scheduled and a manually triggered process_batch for the
\* same supermarket in the one event loop, each with its own database
\* session.  queue, products and history are the committed tables; op holds
\* the two runs.  A run gives way to the other only while it awaits a fetch:
\* the loop body of one product runs without interruption, and so do the
\* last loop body, update_scan_results and the commit.  A session reads
\* committed rows and keeps the objects it loaded; its UPDATE of price rows
\* locks them until it commits; what it added or set on its objects reaches
\* the tables at its commit, where a second products row for a key is
\* refused by the primary key.

\* last reading of the clock
MaxOverlapClock == 7

Runs == {"scheduled", "manual"}

\* what a fetch can deliver
OverlapInputs ==
    {[kind |-> "not_found", price |-> NULL, unit |-> NULL, gap |-> 0],
     [kind |-> "data", price |-> 1990, unit |-> 1990, gap |-> 0],
     [kind |-> "data", price |-> 1994, unit |-> 1990, gap |-> 0]}

EmptySession ==
    [queue |-> [k \in Keys |-> None], products |-> [k \in Keys |-> None],
     history |-> <<>>, now |-> 0, updated_count |-> 0, error_count |-> 0]

\* the tables after the sitemap gave products 1 and 2
DiscoveredSession ==
    refresh_sitemap(EmptySession, "bonpreu", <<1, 2>>, "none").st

\* the tables after a first batch stored products 1 and 2 at 19.90
ScannedSession ==
    process_batch(DiscoveredSession, "bonpreu",
                  <<<<1, "bonpreu">>, <<2, "bonpreu">>>>,
                  [j \in 1..2 |-> [kind |-> "data", price |-> 1990,
                                   unit |-> 1990, gap |-> 0]]).st

\* a run that has not started
IdleRun ==
    [pc |-> "idle", work |-> <<>>, i |-> 1, data |-> None,
     loaded |-> [k \in Keys |-> None], entries |-> [k \in Keys |-> None],
     existing |-> [k \in Keys |-> None], prods |-> [k \in Keys |-> None],
     adds |-> {}, closes |-> {}, inserts |-> <<>>,
     stale |-> {}, result |-> "none"]

\* a run is between its first read and its commit
InProgress(run) == run.pc \notin {"idle", "done"}

\* process_batch may be entered with a single-flight guard: no run at all is
\* in progress
may_begin_single_flight(runs, r) ==
    \A x \in Runs : ~InProgress(runs[x])

\* process_batch may be entered: the run itself is not in progress (one
\* instance of the scheduler's job, one background task of the request);
\* nothing is asked about the other run
may_begin(runs, r) == ~InProgress(runs[r])

\* get_next_batch_with_metadata: the rows are loaded into the session
overlap_begin(q, work) ==
    IF Len(work) = 0
    THEN [IdleRun EXCEPT !.pc = "done", !.result = "empty"]
    ELSE [IdleRun EXCEPT
            !.pc = "fetch", !.work = work,
            !.loaded = [k \in Keys |->
                          IF \E j \in DOMAIN work : work[j] = k
                          THEN q[k] ELSE None],
            !.entries = [k \in Keys |->
                          IF \E j \in DOMAIN work : work[j] = k
                          THEN q[k] ELSE None]]

\* the price rows another session has updated and not committed
LockedByOthers(runs, r) ==
    UNION {IF InProgress(runs[x]) THEN {c[1] : c \in runs[x].closes} ELSE {} :
              x \in Runs \ {r}}

\* the loop body for work[i] after its fetch.  The UPDATE of
\* close_previous_entry finds the open rows committed now; when another
\* session holds one of them the statement waits (pc "blocked")
overlap_item(run, prods, hist, locked, t) ==
    LET k == run.work[run.i]
        success == run.data.kind = "data"
        status == update_scan_status(run.entries, k[1], k[2], success,
                      IF success THEN NullText ELSE "Product not found", t).queue
        product_data == ProductData(k[1], k[2], run.data)
        existing_product == get_by_id(prods, k[1], k[2])
        price_changed == has_price_changed(existing_product, product_data)
        rows == IF existing_product # None
                THEN CurrentRows(hist, k[1], k[2]) ELSE {}
        row == [product_id |-> k[1], supermarket_name |-> k[2],
                product_price_amount |-> run.data.price,
                product_unit_price_amount |-> run.data.unit,
                valid_from |-> t, is_current |-> TRUE]
        pc == IF run.i < Len(run.work) THEN "fetch" ELSE "results"
    IN  IF ~success
        THEN [run EXCEPT !.entries = status, !.i = @ + 1, !.pc = pc]
        ELSE IF price_changed /\ rows \cap locked # {}
        THEN [run EXCEPT !.pc = "blocked"]
        ELSE [run EXCEPT
                !.existing[k] = existing_product,
                !.closes = IF price_changed
                           THEN @ \cup {<<j, t>> : j \in rows} ELSE @,
                !.inserts = IF price_changed THEN create_entry(@, row) ELSE @,
                !.prods[k] = upsert(prods, product_data)[k],
                !.adds = IF existing_product = None THEN @ \cup {k} ELSE @,
                !.entries = status, !.i = @ + 1, !.pc = pc]

\* update_scan_results over the rows loaded at the start
overlap_results(run, t) ==
    [run EXCEPT !.entries = update_scan_results(@, run.work, t),
                !.pc = "commit"]

\* self.db.commit() with the primary key of products left out
commit_unchecked(run, prods) == FALSE

\* self.db.commit() raises: a products row the session adds exists by now
commit_raises(run, prods) == \E k \in run.adds : prods[k] # None

\* the price rows after the commit
committed_history(run, hist) ==
    [j \in DOMAIN hist |->
        IF \E c \in run.closes : c[1] = j
        THEN [hist[j] EXCEPT
                !.is_current = FALSE,
                !.valid_to = (CHOOSE c \in run.closes : c[1] = j)[2]]
        ELSE hist[j]] \o run.inserts

\* the row the flush leaves for an object: the attributes the session
\* changed are written, the others stay as committed
flushed(committed, was, is) ==
    IF is = None THEN committed
    ELSE IF was = None \/ committed = None THEN is
    ELSE [f \in DOMAIN is |-> IF is[f] # was[f] THEN is[f] ELSE committed[f]]

\* the keys whose queue row the run read before another commit changed it
stale_keys(run, q) ==
    {k \in Keys : run.loaded[k] # None /\ q[k] # run.loaded[k]}

InitOverlap ==
    /\ \E st \in {DiscoveredSession, ScannedSession} :
        /\ queue = st.queue
        /\ products = st.products
        /\ history = st.history
        /\ now = st.now
    /\ op = [name |-> "overlap", runs |-> [r \in Runs |-> IdleRun]]

\* a session waits for a lock inside the event loop: nothing else runs
Frozen == \E r \in Runs : op.runs[r].pc = "blocked"

\* each of the two runs is followed once
OverlapBegin(r) ==
    /\ ~Frozen
    /\ op.runs[r].pc = "idle"
    /\ may_begin(op.runs, r)
    /\ now < MaxOverlapClock
    /\ \E cands \in get_products_to_scan(queue, "bonpreu", MaxBatchItems * 2) :
        op' = [op EXCEPT !.runs[r] =
                 overlap_begin(queue,
                               get_next_batch(queue, cands, MaxBatchItems))]
    /\ UNCHANGED <<queue, products, history, now>>

\* await scraper.fetch_product_details
OverlapFetch(r) ==
    /\ ~Frozen
    /\ op.runs[r].pc = "fetch"
    /\ now < MaxOverlapClock
    /\ \E inp \in OverlapInputs :
        op' = [op EXCEPT !.runs[r].data = inp, !.runs[r].pc = "item"]
    /\ now' = now + 1
    /\ UNCHANGED <<queue, products, history>>

\* a loop body that another fetch follows
OverlapItem(r) ==
    /\ ~Frozen
    /\ op.runs[r].pc = "item"
    /\ op.runs[r].i < Len(op.runs[r].work)
    /\ op' = [op EXCEPT !.runs[r] =
                overlap_item(@, products, history,
                             LockedByOthers(op.runs, r), now)]
    /\ UNCHANGED <<queue, products, history, now>>

\* the last loop body, update_scan_results and the commit
OverlapLastItem(r) ==
    /\ ~Frozen
    /\ op.runs[r].pc = "item"
    /\ op.runs[r].i = Len(op.runs[r].work)
    /\ LET body == overlap_item(op.runs[r], products, history,
                                LockedByOthers(op.runs, r), now)
           run == overlap_results(body, now)
       IN IF body.pc = "blocked"
          THEN /\ op' = [op EXCEPT !.runs[r] = body]
               /\ UNCHANGED <<queue, products, history>>
          ELSE IF commit_raises(run, products)
          THEN /\ op' = [op EXCEPT !.runs[r] =
                           [run EXCEPT !.pc = "done", !.result = "failed"]]
               /\ UNCHANGED <<queue, products, history>>
          ELSE /\ history' = committed_history(run, history)
               /\ products' = [k \in Keys |->
                                 flushed(products[k], run.existing[k],
                                         run.prods[k])]
               /\ queue' = [k \in Keys |->
                              flushed(queue[k], run.loaded[k], run.entries[k])]
               /\ op' = [op EXCEPT !.runs[r] =
                           [run EXCEPT !.pc = "done", !.result = "committed",
                                       !.stale = stale_keys(run, queue)]]
    /\ UNCHANGED now

NextOverlap ==
    \E r \in Runs :
        \/ OverlapBegin(r)
        \/ OverlapFetch(r)
        \/ OverlapItem(r)
        \/ OverlapLastItem(r)

SpecOverlap == InitOverlap /\ [][NextOverlap]_vars

(* ------------------------ overlapping run claims ------------------------ *)
OverlapFrame == op.name = "overlap"

\* C32: when a scheduled and a manual run over the same key overlap, no
\* committed state holds two open price rows of one key
C32_OneOpenRowUnderOverlap ==
    OverlapFrame =>
        \A k \in Keys : Cardinality(CurrentRows(history, k[1], k[2])) <= 1

\* both runs scanned product 1 while the other was in progress and both
\* committed; one of them closed the open price row and inserted its
\* successor
C32_Witness ==
    /\ OverlapFrame
    /\ \A r \in Runs :
        /\ op.runs[r].result = "committed"
        /\ \E j \in DOMAIN op.runs[r].work : op.runs[r].work[j] = <<1, "bonpreu">>
    /\ \E r \in Runs : <<1, "bonpreu">> \in op.runs[r].stale
    /\ \E r \in Runs : op.runs[r].closes # {} /\ op.runs[r].inserts # <<>>
    /\ \E j \in DOMAIN history :
        history[j].product_id = 1 /\ ~history[j].is_current


\* the keys of a run's work set
WorkKeys(run) == {run.work[j] : j \in DOMAIN run.work}

\* C33: a run that has not started can start whatever the other run is
\* doing, and selects the queue rows the other run is working on; and a
\* commit writes the scan_count it computed from the row as loaded at the
\* start of its run, whatever the table holds by then
C33_OverlapUnguarded ==
    /\ [](OverlapFrame =>
            \A r \in Runs : \A x \in Runs \ {r} : \A k \in Keys :
                (/\ op.runs[r].pc = "idle"
                 /\ ~Frozen
                 /\ now < MaxOverlapClock
                 /\ InProgress(op.runs[x])
                 /\ k \in WorkKeys(op.runs[x]))
                => ENABLED (OverlapBegin(r) /\ k \in WorkKeys(op'.runs[r])))
    /\ [][OverlapFrame =>
            \A r \in Runs :
                (op.runs[r].pc = "item" /\ op'.runs[r].result = "committed")
                => \A k \in WorkKeys(op.runs[r]) :
                      queue'[k].scan_count
                          = op.runs[r].loaded[k].scan_count + 2]_vars

\* both runs loaded the same queue row of product 1, fetched the product and
\* committed; the later commit found the row changed since it was loaded, and
\* the row counts the scans of one run only
C33_Witness ==
    /\ OverlapFrame
    /\ \A r \in Runs : op.runs[r].result = "committed"
    /\ op.runs["scheduled"].loaded[<<1, "bonpreu">>]
          = op.runs["manual"].loaded[<<1, "bonpreu">>]
    /\ op.runs["scheduled"].loaded[<<1, "bonpreu">>] # None
    /\ \E r \in Runs : <<1, "bonpreu">> \in op.runs[r].stale
    /\ queue[<<1, "bonpreu">>].scan_count
          = op.runs["manual"].loaded[<<1, "bonpreu">>].scan_count + 2


(* ----------------------------- batch claims ----------------------------- *)
\* a call of process_batch has returned
BatchDone == op.name = "process_batch" /\ op.pc = "done"

\* the product ids of the work set, in order
BatchIds == [i \in DOMAIN op.batch |-> op.batch[i][1]]

\* positions whose fetch brought data that was stored
StoredAt == {i \in DOMAIN op.outcomes : op.outcomes[i].kind = "data"}

\* C16: when no top-level exception strikes a call of process_batch, the
\* call succeeds whatever the items' fetches and processing did: every id of
\* the work set was handed to the scraper exactly once and in order,
\* products_processed is the size N of the work set, products_updated counts
\* the items that were stored, and products_updated + errors = N
C16_ItemFailuresIsolated ==
    (BatchDone /\ op.fault = "none") =>
        /\ op.result.success
        /\ op.attempted = BatchIds
        /\ op.result.products_processed = Len(op.batch)
        /\ op.result.products_updated = Cardinality(StoredAt)
        /\ op.result.products_updated + op.result.errors = Len(op.batch)

\* a completed call over two items whose first item raised while it was
\* processed and whose second item was stored
C16_Witness ==
    /\ BatchDone /\ op.fault = "none"
    /\ Len(op.batch) = 2
    /\ op.outcomes[1].kind = "invalid"
    /\ op.outcomes[2].kind = "data"
    /\ op.result.errors = 1

\* C17: when a call of process_batch ends in its outer except block, wherever
\* the exception was raised (the work set query, between two items, the
\* commit), the committed queue, products and price history are those the
\* call found, and the result is success = false with products_processed,
\* products_updated and errors all 0
C17_FailedBatchLeavesNoTrace ==
    (BatchDone /\ op.fault \in BatchFaults \ {"none"}) =>
        /\ queue = op.entry.queue
        /\ products = op.entry.products
        /\ history = op.entry.history
        /\ op.result = ResultFailure

\* a call whose commit raised after both items were processed and the session
\* held a product row and a history row that the committed tables lack
C17_Witness ==
    /\ BatchDone /\ op.fault = "commit"
    /\ Len(op.attempted) = 2
    /\ op.outcomes[1].kind = "data"
    /\ op.st.products # products
    /\ Len(op.st.history) > Len(history)
    /\ ~op.result.success

C19_UnreachableNotRecordedAsMissing ==
    (BatchDone /\ op.result.success) =>
        \A i \in DOMAIN op.outcomes :
            op.outcomes[i].kind = "unreachable" =>
                queue[op.batch[i]].last_error # "Product not found"

\* C21: a completed call of process_batch over N items has slept between
\* its fetches as the pacing rule says: ceil(N/C) chunks of at most C fetches
\* and, between consecutive chunks, a sleep of C * (D / N) seconds (the
\* schedule of process_products_batch)
C21_BatchPaced ==
    (BatchDone /\ op.result.success) =>
        op.sleeps = process_products_batch(Len(op.batch)).sleeps

\* the number of items the queue held for the call's supermarket when the
\* call began
KnownItems ==
    Cardinality({k \in Keys : k[2] = op.source /\ op.entry.queue[k] # None})

\* C22: the work set of a call of process_batch, which is given no size, has
\* at most max(1, floor(batch_size_fraction * total known items of the
\* supermarket)) items
C22_WorkSetWithinFraction ==
    op.name = "process_batch" =>
        Len(op.batch) <= calculate_batch_size(KnownItems)

\* C36: a completed call of process_batch has raised the scan_count of every
\* item of its work set by exactly one
C36_OneCountPerScan ==
    (BatchDone /\ op.result.success) =>
        \A i \in DOMAIN op.batch :
            queue[op.batch[i]].scan_count
                = op.entry.queue[op.batch[i]].scan_count + 1

(* -------------------------- single item claims -------------------------- *)
\* C20: a call of process_product that reports no success, because the fetch
\* returned no product or the processing raised, leaves the item's existing
\* queue entry committed with error_count one higher, scan_priority one
\* higher and last_error set
C20_SingleItemFailureRecorded ==
    [][(/\ op'.name = "process_product"
        /\ ~op'.result.success
        /\ queue[<<op'.product_id, op'.source>>] # None) =>
           /\ queue'[<<op'.product_id, op'.source>>].error_count =
                  queue[<<op'.product_id, op'.source>>].error_count + 1
           /\ queue'[<<op'.product_id, op'.source>>].scan_priority =
                  queue[<<op'.product_id, op'.source>>].scan_priority + 1
           /\ queue'[<<op'.product_id, op'.source>>].last_error # NullText]_vars

(* --------------------------- discovery claims --------------------------- *)

\* C14: refresh_sitemap given an empty id list reports success = false and
\* leaves every queue entry as it was.
C14_EmptySitemapNoChange ==
    [][(op'.name = "refresh_sitemap" /\ Len(op'.product_ids) = 0)
          => (op'.result.success = FALSE /\ queue' = queue)]_vars

\* an empty sitemap met by a queue that holds entries
C14_Witness ==
    /\ op.name = "refresh_sitemap"
    /\ Len(op.product_ids) = 0
    /\ op.result.success = FALSE
    /\ \E k \in Keys : queue[k] # None /\ queue[k].last_scanned # NULL

\* the message of the exception a refresh_sitemap call o made on queue q
\* raises, NullText when it raises none: no valid id in a non-empty list, a
\* new id twice in the list, or the commit failing
RaisedMessage(o, q) ==
    LET IsValid(pid) == pid > 0
        valid == SelectSeq(o.product_ids, IsValid)
        Repeated(i) == /\ q[<<valid[i], o.source>>] = None
                       /\ \E j \in DOMAIN valid : j # i /\ valid[j] = valid[i]
    IN  IF Len(o.product_ids) = 0 THEN NullText
        ELSE IF Len(valid) = 0 THEN "No valid product IDs provided"
        ELSE IF \E i \in DOMAIN valid : Repeated(i) THEN "IntegrityError"
        ELSE IF o.fault = "commit" THEN "commit failed"
        ELSE NullText

\* C15: when a step of refresh_sitemap raises, the committed queue is as it
\* was before the call and the result is success = false with the
\* exception's message and products_processed = 0.
C15_DiscoveryRollsBack ==
    [][(op'.name = "refresh_sitemap" /\ RaisedMessage(op', queue) # NullText)
          => /\ queue' = queue
             /\ op'.result.success = FALSE
             /\ op'.result.message = RaisedMessage(op', queue)
             /\ op'.result.products_processed = 0]_vars

\* the commit failed after new ids had been added in the session
C15_Witness ==
    /\ op.name = "refresh_sitemap"
    /\ op.fault = "commit"
    /\ op.result.message = "commit failed"
    /\ \E i \in DOMAIN op.product_ids :
          op.product_ids[i] > 0 /\ queue[<<op.product_ids[i], op.source>>] = None

(* ------------------------- price ledger claims -------------------------- *)

\* the price rows of one key, oldest first (PriceHistoryRepository.get_history
\* reversed)
RowsOfKey(hist, k) ==
    LET OfKey(r) == r.product_id = k[1] /\ r.supermarket_name = k[2]
    IN  SelectSeq(hist, OfKey)

\* the (key, fetch outcome) pairs an operation processed
ProcessedItems(o) ==
    IF o.name = "process_product"
    THEN {<<(<<o.product_id, o.source>>), o.inp>>}
    ELSE IF o.name = "process_batch"
    THEN {<<o.batch[i], o.inps[i]>> : i \in DOMAIN o.batch}
    ELSE {}

\* the fetch gave a product whose two amounts are those of the open row of k
SameAsCurrent(hist, k, f) ==
    /\ f.kind # "not_found"
    /\ CurrentRows(hist, k[1], k[2]) # {}
    /\ \A i \in CurrentRows(hist, k[1], k[2]) :
          /\ hist[i].product_price_amount = f.price
          /\ hist[i].product_unit_price_amount = f.unit

\* C1: in every reachable state at most one stored price row of a key
\* (product_id, supermarket_name) has is_current = true.
C1_AtMostOneCurrent ==
    \A k \in Keys : Cardinality(CurrentRows(history, k[1], k[2])) <= 1

\* a key whose open row was closed and replaced by a new open row
C1_Witness ==
    \E k \in Keys :
        /\ Len(RowsOfKey(history, k)) >= 2
        /\ Cardinality(CurrentRows(history, k[1], k[2])) = 1

\* C2: whenever the open row of a key is closed and the new row inserted,
\* the closed row's valid_to equals the new row's valid_from, also when the
\* clock advances during the operation.
C2_CloseMeetsOpen ==
    \A k \in Keys :
        LET rows == RowsOfKey(history, k)
        IN  \A i \in 1..(Len(rows) - 1) :
                rows[i].valid_to # NULL => rows[i].valid_to = rows[i + 1].valid_from

\* C4: when the fetched price_amount and unit_price_amount both equal the
\* stored current values, processing the item creates no price row and
\* leaves every price row of the key, the open one included, unchanged.
C4_SamePriceNoRow ==
    [][\A x \in ProcessedItems(op') :
          SameAsCurrent(history, x[1], x[2])
              => RowsOfKey(history', x[1]) = RowsOfKey(history, x[1])]_vars

\* a single-item run that found the stored amounts unchanged
C4_Witness ==
    /\ op.name = "process_product"
    /\ op.result.success
    /\ ~op.result.price_changed
    /\ SameAsCurrent(history, <<op.product_id, op.source>>, op.inp)

\* C5: any two consecutive price rows of a key differ in price_amount or in
\* unit_price_amount.
C5_ConsecutiveRowsDiffer ==
    \A k \in Keys :
        LET rows == RowsOfKey(history, k)
        IN  \A i \in 1..(Len(rows) - 1) :
                \/ rows[i].product_price_amount # rows[i + 1].product_price_amount
                \/ rows[i].product_unit_price_amount
                       # rows[i + 1].product_unit_price_amount

\* C37: in every committed state, each key that has a products row has
\* exactly one open price row, and that row carries the products row's
\* price amount and unit price amount
C37_OpenRowMatchesProduct ==
    \A k \in Keys :
        products[k] # None =>
            /\ Cardinality(CurrentRows(history, k[1], k[2])) = 1
            /\ \A i \in CurrentRows(history, k[1], k[2]) :
                  /\ history[i].product_price_amount
                        = products[k].product_price_amount
                  /\ history[i].product_unit_price_amount
                        = products[k].product_unit_price_amount

\* a batch has committed a changed price of a stored product: the key has a
\* closed row and an open one, and a products row
C37_Witness ==
    /\ op.name = "process_batch"
    /\ op.result.success
    /\ \E k \in Keys :
        /\ products[k] # None
        /\ \E i \in DOMAIN op.batch : op.batch[i] = k
        /\ Len(RowsOfKey(history, k)) >= 2
        /\ \E i \in DOMAIN history :
              /\ history[i].product_id = k[1]
              /\ history[i].supermarket_name = k[2]
              /\ ~history[i].is_current
              /\ history[i].product_price_amount
                    # products[k].product_price_amount

\* C38: an item of a batch whose processing raised after its price rows
\* were written, and which the batch counted as an error, leaves no change of
\* price rows and no change of its products row in what the batch commits
C38_FailedItemLeavesNoRows ==
    (BatchDone /\ op.result.success) =>
        \A i \in DOMAIN op.outcomes :
            op.outcomes[i].kind = "invalid" =>
                /\ RowsOfKey(history, op.batch[i])
                      = RowsOfKey(op.entry.history, op.batch[i])
                /\ products[op.batch[i]] = op.entry.products[op.batch[i]]

====
